---- MODULE Spec2Model ----
(***************************************************************************)
(* Inference pipeline of sleap (sleap/nn/inference.py): predictors that    *)
(* build a stage chain lazily, stream records through safely_generate,     *)
(* group them into frames with group_examples_iter, assemble LabeledFrames *)
(* with make_grouped_labeled_frame and hand them to an optional tracker.   *)
(***************************************************************************)
EXTENDS Integers, Sequences, FiniteSets, TLC

(* ------------------------------ bounds --------------------------------- *)
\* number of next(ds_iter) attempts the upstream makes before it must stop
MaxAttempts == 3
\* number of distinct (video_ind, frame_ind) pairs of the provider
MaxKeys == 3
\* number of instances of a non-empty bottom-up record (points of ndim 3)
MaxInst == 2

\* the pairs, two frames per video: (0,0), (0,1), (1,0), (1,1), ...
Keys == {<<j \div 2, j % 2>> : j \in 0..(MaxKeys - 1)}

\* instance counts of a bottom-up record: none, or MaxInst
InstCounts == {0, MaxInst}

\* last_key = None in group_examples_iter: differs from every real key
NoKey == <<-1, -1>>

\* lexicographic order of (video_ind, frame_ind), as Python compares tuples
KeyLess(a, b) == a[1] < b[1] \/ (a[1] = b[1] /\ a[2] < b[2])
KeyLeq(a, b) == a = b \/ KeyLess(a, b)

(* --------------------------- stages and keys --------------------------- *)
\* A stage of a Pipeline, reduced to its effect on the key set of a record:
\* filter stages project onto "keep"; other stages drop "drops", add "adds"
\* and add the new name of every renamed key that is present.
\* "holds" is what the stage object keeps of the data provider it was
\* constructed with (pairs of an attribute name and the provider).
Stage(name, reads, filter, keep, drops, adds, renames) ==
    [name |-> name, reads |-> reads, filter |-> filter, keep |-> keep,
     drops |-> drops, adds |-> adds, renames |-> renames, holds |-> {}]

\* a stage constructed with a value computed from the data provider
Holding(stage, attribute, provider) ==
    [stage EXCEPT !.holds = {<<attribute, provider>>}]

Plain(name, reads, adds) == Stage(name, reads, FALSE, {}, {}, adds, {})

ApplyStage(keys, s) ==
    (IF s.filter THEN keys \cap s.keep ELSE keys \ s.drops)
        \cup s.adds
        \cup {r[2] : r \in {q \in s.renames : q[1] \in keys}}

RECURSIVE FlowKeys(_, _)
FlowKeys(keys, stages) ==
    IF stages = <<>> THEN keys
    ELSE FlowKeys(ApplyStage(keys, Head(stages)), Tail(stages))

\* keys of the records a provider produces (LabelsReader has ground truth)
ProviderKeys(provider) ==
    {"image", "scale", "video_ind", "frame_ind"}
        \cup (IF provider = "labels" THEN {"instances"} ELSE {})

Providers == {"labels", "video"}

(* ------------------------------ trackers ------------------------------- *)
NoTracker == [present |-> FALSE, uses_image |-> FALSE]
Trackers == {NoTracker} \cup {[present |-> TRUE, uses_image |-> b] : b \in BOOLEAN}

\* keep_full_image = self.tracker and self.tracker.uses_image
KeepFullImage(tracker) == tracker.present /\ tracker.uses_image

(* ------------------------------ pipelines ------------------------------ *)
NoPipeline == [built |-> FALSE, stages |-> <<>>, providers |-> <<>>]

\* result of a make_pipeline call: the exception it raised, or the chain
BuildError(error) == [ok |-> FALSE, error |-> error, stages |-> <<>>]
Built(stages) == [ok |-> TRUE, error |-> "none", stages |-> stages]

\* KeyFilter(keep_keys=...) at the end of TopdownPredictor.make_pipeline
TopdownKeepKeys(keep_full_image) ==
    {"bbox", "center_instance_ind", "centroid", "centroid_confidence", "scale",
     "video_ind", "frame_ind", "predicted_center_instance_points",
     "predicted_center_instance_confidences"}
        \cup (IF keep_full_image THEN {"full_image"} ELSE {})

\* KeyFilter(keep_keys=...) at the end of BottomupPredictor.make_pipeline
BottomupKeepKeys(tracker) ==
    {"scale", "video_ind", "frame_ind", "predicted_instances",
     "predicted_peak_scores", "predicted_instance_scores"}
        \cup (IF tracker.present /\ tracker.uses_image THEN {"image"} ELSE {})

Resizer(image_key, keep_full_image) ==
    Plain("Resizer", {image_key},
          IF keep_full_image THEN {"full_image"} ELSE {})

LocalPeakFinder(confmaps_key, peaks_key, vals_key, sample_key, channel_key) ==
    Stage("LocalPeakFinder", {confmaps_key}, FALSE, {}, {confmaps_key},
          {peaks_key, vals_key, sample_key, channel_key}, {})

\* centroid branch of TopdownPredictor.make_pipeline (centroid_model present)
TopdownCentroidStages(confmap, keep_full_image) ==
    << Plain("Normalizer", {"image"}, {}),
       Resizer("image", keep_full_image),
       Plain("KerasModelPredictor", {"image"},
             {"predicted_centroid_confidence_maps"}),
       LocalPeakFinder("predicted_centroid_confidence_maps",
                       "predicted_centroids", "predicted_centroid_confidences",
                       "predicted_centroid_sample_inds",
                       "predicted_centroid_channel_inds"),
       Plain("LambdaFilter", {"predicted_centroids"}, {}),
       Stage("PredictedInstanceCropper",
             {"predicted_centroids", "predicted_centroid_confidences",
              "full_image", "full_image_scale"},
             TRUE,
             {"scale", "video_ind", "frame_ind"}
                 \cup (IF keep_full_image THEN {"full_image"} ELSE {})
                 \cup (IF ~confmap THEN {"instances"} ELSE {}),
             {},
             {"instance_image", "bbox", "center_instance_ind", "centroid",
              "centroid_confidence", "full_image_height", "full_image_width"},
             {}) >>

\* peak source of TopdownPredictor.make_pipeline
TopdownPeakStages(confmap) ==
    IF confmap
    THEN << Plain("KerasModelPredictor", {"instance_image"},
                  {"predicted_instance_confidence_maps"}),
            Plain("GlobalPeakFinder", {"predicted_instance_confidence_maps"},
                  {"predicted_center_instance_points",
                   "predicted_center_instance_confidences"}) >>
    ELSE << Plain("MockGlobalPeakFinder", {"instances"},
                  {"predicted_center_instance_points",
                   "predicted_center_instance_confidences"}) >>

\* names bound at module level in sleap/nn/data/instance_cropping.py
InstanceCroppingGlobals ==
    {"tf", "attr", "Optional", "List", "Text", "sleap", "InstanceCroppingConfig",
     "find_instance_crop_size", "normalize_bboxes", "unnormalize_bboxes",
     "make_centered_bboxes", "crop_bboxes", "InstanceCropper"}

\* find_instance_crop_size(labels): the result, or the NameError of its
\* first use of a name its module does not bind (np.math.ceil is evaluated
\* for every labels, with or without user instances)
find_instance_crop_size(provider) ==
    IF "np" \in InstanceCroppingGlobals
    THEN [raised |-> "none", crop_size |-> <<"crop_size", provider>>]
    ELSE [raised |-> "NameError", crop_size |-> <<>>]

\* the largest of a set of extents, 0.0 for no user instance
MaxLength(extents) ==
    IF extents = {} THEN 0 ELSE CHOOSE m \in extents : \A n \in extents : n <= m

\* the statements of find_instance_crop_size for the per-axis extents
\* (nanmax - nanmin, whole pixels) of the user instances of the labels:
\* the padding is added to the largest extent and the sum is rounded up to
\* a multiple of maximum_stride; np is not bound in the module, so the
\* call ends in the NameError of its first use of np
find_instance_crop_size_of(extents, padding, maximum_stride) ==
    LET max_length == MaxLength(extents) + padding
        ceil == (max_length + maximum_stride - 1) \div maximum_stride
        crop_size == ceil * maximum_stride
    IN  IF "np" \in InstanceCroppingGlobals
        THEN [raised |-> "none", crop_size |-> << crop_size >>]
        ELSE [raised |-> "NameError", crop_size |-> <<>>]

\* attributes of the attrs class InstanceCropper: its keyword arguments
InstanceCropperAttrs == {"crop_width", "crop_height", "keep_full_image"}

\* isinstance(v, int) for the values a crop size is given as: an int, a
\* float, a string such as "auto", or None
IsInt(v) == v.kind = "int"

\* variant: the crop_size argument is looked at first
InstanceCropper_from_config_arg_first(config, crop_size) ==
    LET size == IF IsInt(crop_size) THEN crop_size ELSE config.crop_size
    IN  IF ~IsInt(size)
        THEN [raised |-> "ValueError", cropper |-> <<>>]
        ELSE [raised |-> "none",
              cropper |-> << [crop_width |-> size.v, crop_height |-> size.v,
                              keep_full_image |-> FALSE] >>]

\* InstanceCropper.from_config(config, crop_size)
InstanceCropper_from_config(config, crop_size) ==
    LET size == IF IsInt(config.crop_size) THEN config.crop_size ELSE crop_size
    IN  IF ~IsInt(size)
        THEN [raised |-> "ValueError", cropper |-> <<>>]
        ELSE [raised |-> "none",
              cropper |-> << [crop_width |-> size.v, crop_height |-> size.v,
                              keep_full_image |-> FALSE] >>]

\* InstanceCropper as a stage: input_keys are consumed, output_keys made,
\* every other key replicated; keep_full_image re-emits "image"
InstanceCropper(keep_full_image) ==
    Stage("InstanceCropper", {"image", "instances", "centroids"}, FALSE, {},
          {"instances", "centroids"}
              \cup (IF keep_full_image THEN {} ELSE {"image"}),
          {"instance_image", "bbox", "center_instance", "center_instance_ind",
           "all_instances", "centroid", "full_image_height",
           "full_image_width"}, {})

\* ground-truth centroid branch of TopdownPredictor.make_pipeline
\* (centroid_model is None), as far as the constructor calls succeed
TopdownGroundTruthStages(keep_full_image, data_provider) ==
    << Holding(Plain("InstanceCentroidFinder", {"instances"}, {"centroids"}),
               "skeletons", data_provider),
       Stage("KeyRenamer", {"full_image", "full_image_scale"}, FALSE, {},
             {"full_image", "full_image_scale"}, {},
             {<<"full_image", "image">>, <<"full_image_scale", "scale">>}),
       InstanceCropper(keep_full_image) >>

\* TopdownPredictor.make_pipeline(data_provider); data_provider = "none" when
\* the argument is omitted.  Without a confidence-map config the crop size
\* comes from find_instance_crop_size(data_provider.labels); without a
\* centroid model the skeletons come from data_provider.labels: a provider
\* without labels has no .labels attribute.  The ground-truth branch calls
\* InstanceCropper(..., mock_centroid_confidence=True).  An exception leaves
\* self.pipeline = None.
TopdownMakePipeline(centroid, confmap, tracker, data_provider) ==
    LET keep_full_image == KeepFullImage(tracker)
        head == << Plain("Prefetcher", {}, {}),
                   Stage("KeyRenamer", {"image", "scale"}, FALSE, {}, {}, {},
                         {<<"image", "full_image">>,
                          <<"scale", "full_image_scale">>}) >>
                \o (IF confmap
                    THEN << Plain("Normalizer", {"full_image"}, {}),
                            Resizer("full_image", keep_full_image) >>
                    ELSE <<>>)
        tail == TopdownPeakStages(confmap)
                \o << Stage("KeyFilter", {}, TRUE,
                            TopdownKeepKeys(keep_full_image), {}, {}, {}),
                      Plain("PredictedCenterInstanceNormalizer",
                            {"centroid", "centroid_confidence",
                             "predicted_center_instance_points",
                             "predicted_center_instance_confidences"},
                            {"predicted_centroid",
                             "predicted_centroid_confidence",
                             "predicted_instance",
                             "predicted_instance_confidences"}) >>
    IN  IF centroid
        THEN IF confmap
             THEN Built(head \o TopdownCentroidStages(confmap, keep_full_image)
                             \o tail)
             ELSE IF data_provider # "labels"
                  THEN BuildError("AttributeError")
                  ELSE IF find_instance_crop_size(data_provider).raised # "none"
                       THEN BuildError(find_instance_crop_size(data_provider).raised)
                       ELSE LET c == TopdownCentroidStages(confmap, keep_full_image)
                            IN  Built(head
                                  \o [i \in DOMAIN c |->
                                        IF c[i].name = "PredictedInstanceCropper"
                                        THEN Holding(c[i], "crop_size", data_provider)
                                        ELSE c[i]]
                                  \o tail)
        ELSE IF data_provider # "labels"
             THEN BuildError("AttributeError")
             ELSE IF "mock_centroid_confidence" \notin InstanceCropperAttrs
                  THEN BuildError("TypeError")
                  ELSE Built(head
                           \o TopdownGroundTruthStages(keep_full_image,
                                                       data_provider)
                           \o tail)

BottomupMakePipeline_filter_late(tracker) ==
    Built(<< Plain("Normalizer", {"image"}, {}),
             Resizer("image", FALSE),
             Plain("Prefetcher", {}, {}),
             Plain("KerasModelPredictor", {"image"},
                   {"predicted_confidence_maps",
                    "predicted_part_affinity_fields"}),
             LocalPeakFinder("predicted_confidence_maps", "predicted_peaks",
                             "predicted_peak_confidences",
                             "predicted_peak_sample_inds",
                             "predicted_peak_channel_inds"),
             Stage("PartAffinityFieldInstanceGrouper",
                   {"predicted_peaks", "predicted_peak_confidences",
                    "predicted_peak_channel_inds",
                    "predicted_part_affinity_fields"},
                   FALSE, {}, {"predicted_part_affinity_fields"},
                   {"predicted_instances", "predicted_peak_scores",
                    "predicted_instance_scores"}, {}),
             Plain("LambdaFilter", {"predicted_peaks"}, {}),
             Stage("KeyFilter", {}, TRUE, BottomupKeepKeys(tracker), {}, {}, {}),
             Plain("PointsRescaler", {"predicted_instances", "scale"}, {}) >>)

\* BottomupPredictor.make_pipeline
BottomupMakePipeline(tracker) ==
    Built(<< Plain("Normalizer", {"image"}, {}),
             Resizer("image", FALSE),
             Plain("Prefetcher", {}, {}),
             Plain("KerasModelPredictor", {"image"},
                   {"predicted_confidence_maps",
                    "predicted_part_affinity_fields"}),
             LocalPeakFinder("predicted_confidence_maps", "predicted_peaks",
                             "predicted_peak_confidences",
                             "predicted_peak_sample_inds",
                             "predicted_peak_channel_inds"),
             Plain("LambdaFilter", {"predicted_peaks"}, {}),
             Stage("PartAffinityFieldInstanceGrouper",
                   {"predicted_peaks", "predicted_peak_confidences",
                    "predicted_peak_channel_inds",
                    "predicted_part_affinity_fields"},
                   FALSE, {}, {"predicted_part_affinity_fields"},
                   {"predicted_instances", "predicted_peak_scores",
                    "predicted_instance_scores"}, {}),
             Stage("KeyFilter", {}, TRUE, BottomupKeepKeys(tracker), {}, {}, {}),
             Plain("PointsRescaler", {"predicted_instances", "scale"}, {}) >>)

\* SingleInstancePredictor.make_pipeline
SingleMakePipeline ==
    Built(<< Plain("Normalizer", {"image"}, {}),
             Resizer("image", FALSE),
             Plain("Prefetcher", {}, {}),
             Plain("KerasModelPredictor", {"image"},
                   {"predicted_instance_confidence_maps"}),
             Plain("GlobalPeakFinder", {"predicted_instance_confidence_maps"},
                   {"predicted_instance", "predicted_instance_confidences"}),
             Stage("KeyFilter", {}, TRUE,
                   {"scale", "video_ind", "frame_ind", "predicted_instance",
                    "predicted_instance_confidences"}, {}, {}, {}) >>)

\* VisualPredictor.confidence_maps_key_name; <<>> is None
confidence_maps_key_name(head) ==
    IF head \in {"multi_instance", "single_instance"}
    THEN << "predicted_confidence_maps" >>
    ELSE IF head = "centroid"
         THEN << "predicted_centroid_confidence_maps" >>
         ELSE <<>>

\* VisualPredictor.part_affinity_fields_key_name; <<>> is None
part_affinity_fields_key_name(head) ==
    IF head = "multi_instance"
    THEN << "predicted_part_affinity_fields" >>
    ELSE <<>>

\* VisualPredictor.head_specific_output_keys
head_specific_output_keys(head) ==
    confidence_maps_key_name(head) \o part_affinity_fields_key_name(head)

\* VisualPredictor.make_pipeline
VisualMakePipeline(head) ==
    LET keys == head_specific_output_keys(head)
    IN  Built(<< Plain("Normalizer", {"image"}, {}),
                 Resizer("image", FALSE),
                 Plain("KerasModelPredictor", {"image"},
                       {keys[i] : i \in DOMAIN keys}) >>)

MakePipeline_provider_state(pred, data_provider) ==
    LET b == CASE pred.cls = "topdown" ->
                    TopdownMakePipeline(pred.centroid_model, pred.confmap_config,
                        pred.tracker,
                        IF pred.centroid_config /\ pred.confmap_config
                        THEN "none" ELSE data_provider)
               [] pred.cls = "bottomup" -> BottomupMakePipeline(pred.tracker)
               [] pred.cls = "visual" -> VisualMakePipeline(pred.head)
               [] OTHER -> SingleMakePipeline
    IN  IF b.ok
        THEN Built([i \in DOMAIN b.stages |->
                       IF i = 1 THEN Holding(b.stages[i], "skeletons", data_provider)
                       ELSE b.stages[i]])
        ELSE b

\* the make_pipeline call made by predict_generator when pipeline is None
MakePipeline(pred, data_provider) ==
    CASE pred.cls = "topdown" ->
            TopdownMakePipeline(pred.centroid_model, pred.confmap_config,
                pred.tracker,
                IF pred.centroid_config /\ pred.confmap_config
                THEN "none" ELSE data_provider)
      [] pred.cls = "bottomup" -> BottomupMakePipeline(pred.tracker)
      [] pred.cls = "visual" -> VisualMakePipeline(pred.head)
      [] OTHER -> SingleMakePipeline

predict_generator_rebuild(pred, data_provider) ==
    LET b == MakePipeline(pred, data_provider)
    IN  IF b.ok
        THEN [pred EXCEPT !.pipeline =
                 [built |-> TRUE, stages |-> b.stages,
                  providers |-> <<data_provider>>]]
        ELSE pred

\* variant: the chain is built again when make_pipeline would now build
\* another one
predict_generator_retrack(pred, data_provider) ==
    LET b == MakePipeline(pred, data_provider)
    IN  IF pred.pipeline.built /\ ~(b.ok /\ b.stages # pred.pipeline.stages)
        THEN [pred EXCEPT !.pipeline.providers = <<data_provider>>]
        ELSE IF b.ok
             THEN [pred EXCEPT !.pipeline =
                      [built |-> TRUE, stages |-> b.stages,
                       providers |-> <<data_provider>>]]
             ELSE pred

\* predict_generator up to the call of safely_generate: build the pipeline
\* if there is none, then rebind the provider list
predict_generator(pred, data_provider) ==
    IF pred.pipeline.built
    THEN [pred EXCEPT !.pipeline.providers = <<data_provider>>]
    ELSE LET b == MakePipeline(pred, data_provider)
         IN  IF b.ok
             THEN [pred EXCEPT !.pipeline =
                      [built |-> TRUE, stages |-> b.stages,
                       providers |-> <<data_provider>>]]
             ELSE pred

(* --------------------------- safely_generate --------------------------- *)
Outcomes == {"ok", "err", "stop"}

SGInit == [i |-> 0, done |-> FALSE, log |-> <<>>, raised |-> FALSE, out |-> <<>>]

\* variant: an Exception ends the iteration
safely_generate_abort(st, outcome, example) ==
    CASE outcome = "ok" ->
            [st EXCEPT !.out = << example >>, !.i = st.i + 1]
      [] outcome = "stop" ->
            [st EXCEPT !.out = <<>>, !.done = TRUE]
      [] OTHER ->
            [st EXCEPT !.out = <<>>, !.log = Append(st.log, st.i),
                       !.done = TRUE]

\* variant: the index counts the yielded records only
safely_generate_noinc(st, outcome, example) ==
    CASE outcome = "ok" ->
            [st EXCEPT !.out = << example >>, !.i = st.i + 1]
      [] outcome = "stop" ->
            [st EXCEPT !.out = <<>>, !.done = TRUE]
      [] OTHER ->
            [st EXCEPT !.out = <<>>, !.log = Append(st.log, st.i)]

\* variant: StopIteration is handled like any other exception
safely_generate_nostop(st, outcome, example) ==
    CASE outcome = "ok" ->
            [st EXCEPT !.out = << example >>, !.i = st.i + 1]
      [] OTHER ->
            [st EXCEPT !.out = <<>>, !.log = Append(st.log, st.i),
                       !.i = IF st.i < MaxAttempts THEN st.i + 1 ELSE st.i]

\* variant: a failed record is yielded too
safely_generate_yield_failed(st, outcome, example) ==
    CASE outcome = "ok" ->
            [st EXCEPT !.out = << example >>, !.i = st.i + 1]
      [] outcome = "stop" ->
            [st EXCEPT !.out = <<>>, !.done = TRUE]
      [] OTHER ->
            [st EXCEPT !.out = << example >>, !.log = Append(st.log, st.i),
                       !.i = st.i + 1]

\* one iteration of the while loop of safely_generate, for the outcome of
\* next(ds_iter): a record ("ok"), an Exception ("err") or StopIteration;
\* "out" is what the iteration yields, "log" the indices of the logged errors
safely_generate(st, outcome, example) ==
    CASE outcome = "ok" ->
            [st EXCEPT !.out = << example >>, !.i = st.i + 1]
      [] outcome = "stop" ->
            [st EXCEPT !.out = <<>>, !.done = TRUE]
      [] OTHER ->
            [st EXCEPT !.out = <<>>, !.log = Append(st.log, st.i),
                       !.i = st.i + 1]

(* ------------------------- group_examples(_iter) ----------------------- *)
KeyOf(example) == <<example.video_ind, example.frame_ind>>

GroupInit == [last_key |-> NoKey, key |-> NoKey, batch |-> <<>>]

\* variant: a new batch is started when the video index changes only
group_examples_iter_merge(g, example) ==
    LET key == KeyOf(example)
    IN  IF g.last_key[1] # key[1]
        THEN [last_key |-> key, key |-> key, batch |-> <<example>>,
              out |-> IF g.batch # <<>>
                      THEN << [key |-> g.last_key, batch |-> g.batch] >>
                      ELSE <<>>]
        ELSE [last_key |-> g.last_key, key |-> key,
              batch |-> Append(g.batch, example), out |-> <<>>]

\* variant: every example starts a new batch
group_examples_iter_split(g, example) ==
    LET key == KeyOf(example)
    IN  [last_key |-> key, key |-> key, batch |-> <<example>>,
         out |-> IF g.batch # <<>>
                 THEN << [key |-> g.last_key, batch |-> g.batch] >>
                 ELSE <<>>]

\* variant: every example is yielded at once as a batch of its own
group_examples_iter_eager(g, example) ==
    [last_key |-> KeyOf(example), key |-> KeyOf(example), batch |-> <<>>,
     out |-> << [key |-> KeyOf(example), batch |-> <<example>>] >>]

\* body of the for loop of group_examples_iter for one example; "out" is
\* the sequence of (key, batch) pairs yielded in this iteration
group_examples_iter(g, example) ==
    LET key == KeyOf(example)
    IN  IF g.last_key # key
        THEN [last_key |-> key, key |-> key, batch |-> <<example>>,
              out |-> IF g.batch # <<>>
                      THEN << [key |-> g.last_key, batch |-> g.batch] >>
                      ELSE <<>>]
        ELSE [last_key |-> g.last_key, key |-> key,
              batch |-> Append(g.batch, example), out |-> <<>>]

\* variant: the last batch is never yielded
group_examples_flush_none(g) == <<>>

\* the trailing "if batch: yield key, batch" of group_examples_iter
group_examples_flush(g) ==
    IF g.batch # <<>> THEN << [key |-> g.key, batch |-> g.batch] >> ELSE <<>>

\* variant: a later example of a key replaces the earlier ones
RECURSIVE group_examples_last(_)
group_examples_last(examples) ==
    IF examples = <<>> THEN [k \in {} |-> <<>>]
    ELSE LET n == Len(examples)
             d == group_examples_last(SubSeq(examples, 1, n - 1))
             e == examples[n]
             k == KeyOf(e)
         IN  [x \in DOMAIN d \cup {k} |-> IF x = k THEN <<e>> ELSE d[x]]

\* group_examples: dictionary from key to the list of examples with that key
RECURSIVE group_examples(_)
group_examples(examples) ==
    IF examples = <<>> THEN [k \in {} |-> <<>>]
    ELSE LET n == Len(examples)
             d == group_examples(SubSeq(examples, 1, n - 1))
             e == examples[n]
             k == KeyOf(e)
         IN  [x \in DOMAIN d \cup {k} |->
                 IF x = k
                 THEN (IF k \in DOMAIN d THEN Append(d[k], e) ELSE <<e>>)
                 ELSE d[x]]

(* ---------------------- make_grouped_labeled_frame --------------------- *)
\* sleap.PredictedInstance.from_arrays for row "row" of the points of the
\* record with identity "rec"
PredictedInstance(rec, row) == [rec |-> rec, row |-> row, tracked |-> FALSE]

\* variant: the points of every record are read as rows of instances
ExampleInstances_rows(example) ==
    [j \in 1..example.n |-> PredictedInstance(example.id, j)]

\* the instances appended for one example (points of ndim 3: one per row)
ExampleInstances(example) ==
    IF example.ndim = 3
    THEN [j \in 1..example.n |-> PredictedInstance(example.id, j)]
    ELSE << PredictedInstance(example.id, 1) >>

RECURSIVE FrameInstances(_)
FrameInstances(frame_examples) ==
    IF frame_examples = <<>> THEN <<>>
    ELSE ExampleInstances(Head(frame_examples))
            \o FrameInstances(Tail(frame_examples))

\* img after the loop over frame_examples: set by the last example;
\* <<>> is None, <<k>> the image of frame k
FrameImg(frame_examples, image_key) ==
    IF frame_examples = <<>> THEN <<>>
    ELSE LET example == frame_examples[Len(frame_examples)]
         IN  IF image_key # "none" /\ image_key \in example.keys
             THEN << KeyOf(example) >>
             ELSE <<>>

\* tracker.track: the same instances annotated with track identity
Track(instances) ==
    [j \in DOMAIN instances |-> [instances[j] EXCEPT !.tracked = TRUE]]

\* variant: the frame keeps the instances as they were before tracking
make_grouped_labeled_frame_untracked(video_ind, frame_ind, frame_examples, image_key, tracker) ==
    LET predicted_instances == FrameInstances(frame_examples)
        img == FrameImg(frame_examples, image_key)
        nonempty == Len(predicted_instances) > 0
        tracks == nonempty /\ tracker.present
    IN  [frames |-> IF nonempty
                    THEN << [video |-> video_ind, frame_idx |-> frame_ind,
                             instances |-> predicted_instances] >>
                    ELSE <<>>,
         calls |-> IF tracks
                   THEN << [untracked_instances |-> predicted_instances,
                            img |-> img, t |-> frame_ind, video |-> video_ind,
                            tracker |-> tracker,
                            returned |-> Track(predicted_instances)] >>
                   ELSE <<>>]

make_grouped_labeled_frame_always(video_ind, frame_ind, frame_examples, image_key, tracker) ==
    LET predicted_instances == FrameInstances(frame_examples)
        img == FrameImg(frame_examples, image_key)
        returned == IF tracker.present THEN Track(predicted_instances)
                    ELSE predicted_instances
    IN  [frames |-> << [video |-> video_ind, frame_idx |-> frame_ind,
                        instances |-> returned] >>,
         calls |-> IF tracker.present
                   THEN << [untracked_instances |-> predicted_instances,
                            img |-> img, t |-> frame_ind, video |-> video_ind,
                            tracker |-> tracker, returned |-> returned] >>
                   ELSE <<>>]

make_grouped_labeled_frame(video_ind, frame_ind, frame_examples, image_key, tracker) ==
    LET predicted_instances == FrameInstances(frame_examples)
        img == FrameImg(frame_examples, image_key)
        nonempty == Len(predicted_instances) > 0
        tracks == nonempty /\ tracker.present
        returned == IF tracks THEN Track(predicted_instances)
                    ELSE predicted_instances
    IN  [frames |-> IF nonempty
                    THEN << [video |-> video_ind, frame_idx |-> frame_ind,
                             instances |-> returned] >>
                    ELSE <<>>,
         calls |-> IF tracks
                   THEN << [untracked_instances |-> predicted_instances,
                            img |-> img, t |-> frame_ind, video |-> video_ind,
                            tracker |-> tracker, returned |-> returned] >>
                   ELSE <<>>]

\* variant: every predictor hands its tracker to make_grouped_labeled_frame
make_lfs_tracker(pred, group) ==
    make_grouped_labeled_frame(
        group.key[1], group.key[2], group.batch,
        CASE pred.cls = "topdown" -> "full_image"
          [] pred.cls = "bottomup" -> "image"
          [] OTHER -> "none",
        pred.tracker)

\* make_lfs of each predictor's make_labeled_frames_from_generator
make_lfs(pred, group) ==
    make_grouped_labeled_frame(
        group.key[1], group.key[2], group.batch,
        CASE pred.cls = "topdown" -> "full_image"
          [] pred.cls = "bottomup" -> "image"
          [] OTHER -> "none",
        IF pred.cls = "single" THEN NoTracker ELSE pred.tracker)

\* variant: the final pass does not look at the tracker
final_pass_always(pred, predicted_frames) ==
    IF pred.cls # "single" THEN << predicted_frames >> ELSE <<>>

\* "if self.tracker: self.tracker.final_pass(predicted_frames)"
final_pass(pred, predicted_frames) ==
    IF pred.cls # "single" /\ pred.tracker.present
    THEN << predicted_frames >>
    ELSE <<>>

\* the for loop body of make_labeled_frames_from_generator for the groups
\* the grouped generator yields: predicted_frames.extend(make_lfs(...))
RECURSIVE extend_frames(_, _, _)
extend_frames(pred, acc, out) ==
    IF out = <<>> THEN acc
    ELSE LET r == make_lfs(pred, Head(out))
         IN  extend_frames(pred,
                [predicted_frames |-> acc.predicted_frames \o r.frames,
                 track_calls |-> acc.track_calls \o r.calls,
                 events |-> acc.events \o << "group" >>
                     \o (IF r.calls # <<>> THEN << "track" >> ELSE <<>>)
                     \o (IF r.frames # <<>> THEN << "frame" >> ELSE <<>>)],
                Tail(out))

(* ------------------- instance_cropping: tf.float32 -------------------- *)
\* The bounding boxes are tf.float32 tensors.  A finite float32 value is
\* m * 2^e with m = 0, or 2^23 <= |m| < 2^24 (the values of this model stay
\* far from the subnormal and the overflow range); the other values are
\* nan and the two infinities (m is the sign).
Mant == 2^23

NaN == [kind |-> "nan", m |-> 0, e |-> 0]
Inf(sign) == [kind |-> "inf", m |-> sign, e |-> 0]
Num(m, e) == [kind |-> "num", m |-> m, e |-> IF m = 0 THEN 0 ELSE e]

Abs(x) == IF x < 0 THEN -x ELSE x
Sign(x) == IF x < 0 THEN -1 ELSE IF x = 0 THEN 0 ELSE 1

\* the number of halvings that bring a / den below 2^24
RECURSIVE ExpDown(_, _)
ExpDown(a, den) == IF a \div den < 2 * Mant THEN 0 ELSE 1 + ExpDown(a, 2 * den)

\* the number of doublings that bring a / den to 2^23 or above
RECURSIVE ExpUp(_, _)
ExpUp(a, den) == IF a \div den >= Mant THEN 0 ELSE 1 + ExpUp(2 * a, den)

\* the float32 nearest to num / den (den > 0), ties to even: the result of
\* one IEEE operation whose exact value is num / den
F32(num, den) ==
    IF num = 0 THEN Num(0, 0)
    ELSE LET a == Abs(num)
             kd == ExpDown(a, den)
             D == den * 2^kd
             ku == ExpUp(a, D)
             A == a * 2^ku
             q == A \div D
             r == A % D
             up == r > D - r \/ (r = D - r /\ q % 2 = 1)
             m == IF up THEN q + 1 ELSE q
         IN  IF m = 2 * Mant THEN Num(Sign(num) * Mant, kd - ku + 1)
             ELSE Num(Sign(num) * m, kd - ku)

\* x / d and x * d for a float32 x and the float32 value of a small
\* non-negative integer d (image size minus one)
F32Div(x, d) ==
    CASE x.kind = "nan" -> NaN
      [] x.kind = "inf" -> x
      [] d = 0 -> IF x.m = 0 THEN NaN ELSE Inf(Sign(x.m))
      [] OTHER -> LET r == F32(x.m, d) IN Num(r.m, r.e + x.e)

F32Mul(x, d) ==
    CASE x.kind = "nan" -> NaN
      [] x.kind = "inf" -> IF d = 0 THEN NaN ELSE x
      [] OTHER -> LET r == F32(x.m * d, 1) IN Num(r.m, r.e + x.e)

F32Neg(x) == [x EXCEPT !.m = -x.m]

Min(a, b) == IF a < b THEN a ELSE b

\* x + y for float32 values whose exponents are close (the coordinates of
\* one image)
F32Add(x, y) ==
    CASE x.kind = "nan" \/ y.kind = "nan" -> NaN
      [] x.kind = "inf" -> IF y.kind = "inf" /\ y.m # x.m THEN NaN ELSE x
      [] y.kind = "inf" -> y
      [] x.m = 0 -> y
      [] y.m = 0 -> x
      [] OTHER -> LET c == Min(x.e, y.e)
                      r == F32(x.m * 2^(x.e - c) + y.m * 2^(y.e - c), 1)
                  IN  Num(r.m, r.e + c)

F32Sub(x, y) == F32Add(x, F32Neg(y))

(* ---------------- normalize_bboxes / unnormalize_bboxes ---------------- *)
\* factor = [[image_height, image_width, image_height, image_width]] - 1
BboxFactor(image_height, image_width) ==
    << image_height - 1, image_width - 1, image_height - 1, image_width - 1 >>

\* variant: the y coordinates are divided by the image height
normalize_bboxes_height(bboxes, image_height, image_width) ==
    LET factor == << image_height, image_width - 1, image_height, image_width - 1 >>
    IN  [n \in DOMAIN bboxes |->
            [c \in 1..4 |-> F32Div(bboxes[n][c], factor[c])]]

\* bboxes / factor
normalize_bboxes(bboxes, image_height, image_width) ==
    LET factor == BboxFactor(image_height, image_width)
    IN  [n \in DOMAIN bboxes |->
            [c \in 1..4 |-> F32Div(bboxes[n][c], factor[c])]]

\* normalized_bboxes * factor
unnormalize_bboxes(normalized_bboxes, image_height, image_width) ==
    LET factor == BboxFactor(image_height, image_width)
    IN  [n \in DOMAIN normalized_bboxes |->
            [c \in 1..4 |-> F32Mul(normalized_bboxes[n][c], factor[c])]]

(* ------------------------ make_centered_bboxes ------------------------- *)
\* variant: the box reaches half the box size to each side of the centroid
make_centered_bboxes_size(centroids, box_height, box_width) ==
    LET delta == << F32(-box_height, 2), F32(-box_width, 2),
                    F32(box_height, 2), F32(box_width, 2) >>
        gather == << 2, 1, 2, 1 >>
    IN  [n \in DOMAIN centroids |->
            [c \in 1..4 |-> F32Add(centroids[n][gather[c]], delta[c])]]

\* delta = [[-box_height + 1, -box_width + 1, box_height - 1,
\* box_width - 1]] * 0.5; tf.gather(centroids, [1, 0, 1, 0]) + delta, the
\* centroids being (x, y) pairs
make_centered_bboxes(centroids, box_height, box_width) ==
    LET delta == << F32(-box_height + 1, 2), F32(-box_width + 1, 2),
                    F32(box_height - 1, 2), F32(box_width - 1, 2) >>
        gather == << 2, 1, 2, 1 >>
    IN  [n \in DOMAIN centroids |->
            [c \in 1..4 |-> F32Add(centroids[n][gather[c]], delta[c])]]

(* ----------------------------- crop_bboxes ----------------------------- *)
\* tf.cast(tf.math.round(x), tf.int32) of a finite x: the nearest integer,
\* ties to even
F32RoundInt(x) ==
    IF x.m = 0 THEN 0
    ELSE IF x.e >= 0 THEN x.m * 2^x.e
    ELSE IF x.e < -30 THEN 0
    ELSE LET p == 2^(-x.e)
             q == Abs(x.m) \div p
             r == Abs(x.m) % p
             up == r > p - r \/ (r = p - r /\ q % 2 = 1)
         IN  Sign(x.m) * (IF up THEN q + 1 ELSE q)

\* a finite image coordinate in units of 2^-25 pixel (exact for 0 and for
\* the float32 values of magnitude 1/4 .. 32)
FixedUnit == 2^25
Fixed(x) ==
    IF x.m = 0 THEN 0
    ELSE IF x.e >= -25 THEN x.m * 2^(x.e + 25)
    ELSE x.m \div 2^(-25 - x.e)

\* tf.image.crop_and_resize along one axis: where output index i of a crop
\* of "size" samples falls in an image of "len" pixels, for a box from
\* normalized coordinate n1 to n2.  A normalized coordinate n is the image
\* coordinate n * (len - 1); the samples are spread evenly from the first
\* to the second box coordinate (a crop of one sample is taken at their
\* midpoint); a sample outside 0 .. len - 1 is the extrapolation value 0,
\* one on a pixel centre is that pixel, any other is interpolated between
\* the pixels "at" and "at" + 1.  With a nan coordinate nothing is defined.
Sample(n1, n2, size, len, i) ==
    LET top == F32Mul(n1, len - 1)
        bottom == F32Mul(n2, len - 1)
    IN  IF top.kind # "num" \/ bottom.kind # "num"
        THEN [kind |-> "undefined", at |-> 0]
        ELSE LET den == IF size > 1 THEN (size - 1) * FixedUnit
                        ELSE 2 * FixedUnit
                 num == IF size > 1
                        THEN Fixed(top) * (size - 1)
                                + i * (Fixed(bottom) - Fixed(top))
                        ELSE Fixed(top) + Fixed(bottom)
             IN  IF num < 0 \/ num > (len - 1) * den
                 THEN [kind |-> "outside", at |-> 0]
                 ELSE IF num % den = 0
                 THEN [kind |-> "pixel", at |-> num \div den]
                 ELSE [kind |-> "between", at |-> num \div den]

\* tf.image.crop_and_resize(image, boxes, box_indices = 0, crop_size,
\* "bilinear"): every box is resampled to crop_size; the value of a crop
\* pixel is given by where it is sampled in the image
crop_and_resize(image, boxes, crop_size) ==
    [n \in DOMAIN boxes |->
        [i \in 0..(crop_size[1] - 1) |->
            [j \in 0..(crop_size[2] - 1) |->
                [y |-> Sample(boxes[n][1], boxes[n][3], crop_size[1],
                              image.height, i),
                 x |-> Sample(boxes[n][2], boxes[n][4], crop_size[2],
                              image.width, j)]]]]

\* variant: the crop size comes from the last box of the batch
crop_bboxes_last(image, bboxes) ==
    IF bboxes = <<>>
    THEN [raised |-> "InvalidArgumentError", dtype |-> image.dtype,
          box_size |-> << 0, 0 >>, crops |-> <<>>]
    ELSE LET last == bboxes[Len(bboxes)]
             box_size == [c \in 1..2 |->
                 F32RoundInt(F32Add(F32Sub(last[c + 2], last[c]), F32(1, 1)))]
         IN  [raised |-> "none", dtype |-> image.dtype, box_size |-> box_size,
              crops |-> crop_and_resize(image,
                            normalize_bboxes(bboxes, image.height, image.width),
                            box_size)]

\* crop_bboxes(image, bboxes): the crop size comes from the first box
\* (gather_nd of row 0 fails on an empty batch, crop_and_resize on a size
\* that is not positive); the crops are cast to the dtype of the image
crop_bboxes(image, bboxes) ==
    IF bboxes = <<>>
    THEN [raised |-> "InvalidArgumentError", dtype |-> image.dtype,
          box_size |-> << 0, 0 >>, crops |-> <<>>]
    ELSE LET y1x1 == << bboxes[1][1], bboxes[1][2] >>
             y2x2 == << bboxes[1][3], bboxes[1][4] >>
             box_size == [c \in 1..2 |->
                 F32RoundInt(F32Add(F32Sub(y2x2[c], y1x1[c]), F32(1, 1)))]
             normalized_bboxes ==
                 normalize_bboxes(bboxes, image.height, image.width)
         IN  IF box_size[1] <= 0 \/ box_size[2] <= 0
             THEN [raised |-> "InvalidArgumentError", dtype |-> image.dtype,
                   box_size |-> box_size, crops |-> <<>>]
             ELSE [raised |-> "none", dtype |-> image.dtype,
                   box_size |-> box_size,
                   crops |-> crop_and_resize(image, normalized_bboxes, box_size)]

(* ------------------- InstanceCropper.transform_dataset ----------------- *)
InstanceCropperInputKeys == {"image", "instances", "centroids"}

\* the keys crop_instances computes for every instance
InstanceCropperComputedKeys ==
    {"instance_image", "bbox", "center_instance", "center_instance_ind",
     "all_instances", "centroid", "full_image_height", "full_image_width"}

\* points - offset for the (x, y) points of one instance
ShiftPoints(points, offset) ==
    [node \in DOMAIN points |->
        << F32Sub(points[node][1], offset[1]),
           F32Sub(points[node][2], offset[2]) >>]

\* variant: the offset is subtracted in (y, x) order
all_instances_yx(frame_data, bboxes) ==
    [n \in 1..Len(bboxes) |->
        [m \in DOMAIN frame_data["instances"] |->
            ShiftPoints(frame_data["instances"][m],
                        << bboxes[n][1], bboxes[n][2] >>)]]

\* all_instances of crop_instances: for instance n, the points of every
\* instance of the frame relative to the corner (x1, y1) of box n
all_instances(frame_data, bboxes) ==
    [n \in 1..Len(bboxes) |->
        [m \in DOMAIN frame_data["instances"] |->
            ShiftPoints(frame_data["instances"][m],
                        << bboxes[n][2], bboxes[n][1] >>)]]

\* instances_data of crop_instances, for instance n of the frame
instances_data(keys_to_expand, frame_data, bboxes, instance_images, shifted, n) ==
    [key \in InstanceCropperComputedKeys \cup keys_to_expand |->
        CASE key \in keys_to_expand -> frame_data[key]
          [] key = "instance_image" -> instance_images.crops[n]
          [] key = "bbox" -> bboxes[n]
          [] key = "center_instance" -> shifted[n][n]
          [] key = "center_instance_ind" -> n - 1
          [] key = "all_instances" -> shifted[n]
          [] key = "centroid" -> frame_data["centroids"][n]
          [] key = "full_image_height" -> frame_data["image"].height
          [] OTHER -> frame_data["image"].width]

\* crop_instances once the crops of the boxes are made: the error of
\* crop_bboxes, or one record per box
crop_instances_batch(keys_to_expand, frame_data, bboxes, instance_images, shifted) ==
    IF instance_images.raised # "none"
    THEN [raised |-> instance_images.raised, batch |-> <<>>]
    ELSE [raised |-> "none",
          batch |-> [n \in 1..Len(bboxes) |->
                        instances_data(keys_to_expand, frame_data, bboxes,
                                       instance_images, shifted, n)]]

\* crop_instances once the boxes are made
crop_instances_boxes(keys_to_expand, frame_data, bboxes) ==
    crop_instances_batch(keys_to_expand, frame_data, bboxes,
                         crop_bboxes(frame_data["image"], bboxes),
                         all_instances(frame_data, bboxes))

\* crop_instances(frame_data): the batch of instance records of one frame,
\* or the error of crop_bboxes
crop_instances(self, keys_to_expand, frame_data) ==
    crop_instances_boxes(keys_to_expand, frame_data,
        make_centered_bboxes(frame_data["centroids"],
                             self.crop_height, self.crop_width))

\* input_ds.map(crop_instances).unbatch() over the elements f, f + 1, ...
\* of input_ds: the instance records in order, each with the position of
\* the frame it was made from; a frame whose map call raises gives an
\* error in place of records
Unbatch(f, r, rest) ==
    [elements |-> [n \in DOMAIN r.batch |-> [frame |-> f, data |-> r.batch[n]]]
                  \o rest.elements,
     errors |-> (IF r.raised # "none"
                 THEN << [frame |-> f, raised |-> r.raised] >>
                 ELSE <<>>) \o rest.errors]

RECURSIVE MapUnbatch(_, _, _, _)
MapUnbatch(self, keys_to_expand, input_ds, f) ==
    IF f > Len(input_ds) THEN [elements |-> <<>>, errors |-> <<>>]
    ELSE Unbatch(f, crop_instances(self, keys_to_expand, input_ds[f]),
                 MapUnbatch(self, keys_to_expand, input_ds, f + 1))

\* InstanceCropper.output_keys
InstanceCropper_output_keys(self) ==
    InstanceCropperComputedKeys
        \cup (IF self.keep_full_image THEN {"image"} ELSE {})

\* variant: the image is never added to the keys to replicate
InstanceCropper_transform_dataset_no_image(self, input_ds) ==
    IF input_ds = <<>>
    THEN [raised |-> "StopIteration", pulled |-> <<>>, keys_to_expand |-> {}]
    ELSE [raised |-> "none", pulled |-> << 1 >>,
          keys_to_expand |-> DOMAIN input_ds[1] \ InstanceCropperInputKeys]

\* InstanceCropper.transform_dataset(input_ds) up to its return: the test
\* example is drawn from input_ds (tf.data is lazy otherwise: map and
\* unbatch only chain datasets); next() of an empty dataset raises
\* StopIteration.  "pulled" are the positions of the records of input_ds
\* read so far.
InstanceCropper_transform_dataset(self, input_ds) ==
    IF input_ds = <<>>
    THEN [raised |-> "StopIteration", pulled |-> <<>>, keys_to_expand |-> {}]
    ELSE LET test_example == input_ds[1]
             keys_to_expand ==
                 (DOMAIN test_example \ InstanceCropperInputKeys)
                    \cup (IF self.keep_full_image THEN {"image"} ELSE {})
         IN  [raised |-> "none", pulled |-> << 1 >>,
              keys_to_expand |-> keys_to_expand]

\* variant: only the computed keys are put on the instance records
output_ds_computed(self, built, input_ds) ==
    MapUnbatch(self, {}, input_ds, 1)

\* output_ds read to its end by a consumer
output_ds(self, built, input_ds) ==
    MapUnbatch(self, built.keys_to_expand, input_ds, 1)

(* ------------------------------- state --------------------------------- *)
VARIABLES
    args,             \* arguments of the pending construction call
    pred,             \* the predictor: class, models, pipeline, tracker
    pc,               \* "new", "failed", "idle", "running", "done", "raised"
    run_provider,     \* data_provider argument of the current predict call
    built_for,        \* data_provider of the call that built the pipeline
    make_instances,   \* argument of the current predict call
    attempts,         \* outcomes of the next(ds_iter) calls of this run
    produced,         \* records the upstream has produced in this run
    exhausted,        \* the upstream has signalled StopIteration
    extra_pull,       \* the upstream was pulled after StopIteration
    sg,               \* locals of safely_generate: i, done, log
    yielded,          \* records safely_generate has yielded
    grp,              \* locals of group_examples_iter: last_key, key, batch
    groups,           \* (key, batch) pairs group_examples_iter has yielded
    predicted_frames, \* LabeledFrames assembled so far
    track_calls,      \* calls of tracker.track
    final_pass_calls, \* arguments of the calls of tracker.final_pass
    events,           \* order of the steps of the run
    call,             \* instance_cropping: the function called, its arguments
    returned,         \* instance_cropping: the values returned so far
    cli               \* main(): the step reached, the video file, the output

vars == << args, pred, pc, run_provider, built_for, make_instances, attempts, produced, exhausted, extra_pull, sg,
           yielded, grp, groups, predicted_frames, track_calls,
           final_pass_calls, events, call, returned, cli >>

cropvars == << call, returned >>

runvars == << attempts, produced, exhausted, extra_pull, sg, yielded, grp, groups,
              predicted_frames, track_calls, final_pass_calls, events >>

\* no predictor: the construction call has not returned one
NoPredictor ==
    [cls |-> "none", head |-> "none",
     centroid_config |-> FALSE, centroid_model |-> FALSE,
     confmap_config |-> FALSE, confmap_model |-> FALSE,
     pipeline |-> NoPipeline, tracker |-> NoTracker]

\* cls(...): the attrs constructor; pipeline and tracker are init=False and
\* default to None.  A config or model is TRUE when it is not None.
Predictor(cls, centroid_config, centroid_model, confmap_config, confmap_model) ==
    [cls |-> cls, head |-> "none", centroid_config |-> centroid_config,
     centroid_model |-> centroid_model, confmap_config |-> confmap_config,
     confmap_model |-> confmap_model,
     pipeline |-> NoPipeline, tracker |-> NoTracker]

\* result of a construction call: the exception raised, the configs and
\* models loaded and the trackers made, in order, and the predictor
Constructed(raised, trace, predictor) ==
    [raised |-> raised, trace |-> trace, predictor |-> predictor]

\* TopdownPredictor.from_trained_models; a path is TRUE when it is not None
TopdownPredictor_from_trained_models_late(centroid_model_path, confmap_model_path) ==
    LET cen == IF centroid_model_path
               THEN << "load_json:centroid", "load_model:centroid" >> ELSE <<>>
        cm == IF confmap_model_path
              THEN << "load_json:confmap", "load_model:confmap" >> ELSE <<>>
    IN  Constructed("none", cen \o cm,
            Predictor("topdown", centroid_model_path, centroid_model_path,
                      confmap_model_path, confmap_model_path))

TopdownPredictor_from_trained_models(centroid_model_path, confmap_model_path) ==
    IF ~centroid_model_path /\ ~confmap_model_path
    THEN Constructed("ValueError", << "ValueError" >>, NoPredictor)
    ELSE LET cen == IF centroid_model_path
                    THEN << "load_json:centroid", "load_model:centroid" >>
                    ELSE <<>>
             cm == IF confmap_model_path
                   THEN << "load_json:confmap", "load_model:confmap" >>
                   ELSE <<>>
         IN  Constructed("none", cen \o cm,
                 Predictor("topdown", centroid_model_path, centroid_model_path,
                           confmap_model_path, confmap_model_path))

\* BottomupPredictor.from_trained_models(bottomup_model_path)
BottomupPredictor_from_trained_models ==
    Constructed("none", << "load_json:bottomup", "load_model:bottomup" >>,
                Predictor("bottomup", FALSE, FALSE, TRUE, TRUE))

\* SingleInstancePredictor.from_trained_models(confmap_model_path)
SingleInstancePredictor_from_trained_models ==
    Constructed("none", << "load_json:confmap", "load_model:confmap" >>,
                Predictor("single", FALSE, FALSE, TRUE, TRUE))

\* VisualPredictor.from_trained_models(model_path); head is the head of
\* the loaded config (config.model.heads.which_oneof_attrib_name())
VisualPredictor_from_trained_models(head) ==
    Constructed("none", << "load_json:visual", "load_model:visual" >>,
                [Predictor("visual", FALSE, FALSE, FALSE, FALSE)
                    EXCEPT !.head = head])

\* head_names of make_predictor_from_cli
HeadNames == {"single_instance", "centroid", "centered_instance", "multi_instance"}

\* make_predictor_from_cli(args): heads are the keys of trained_model_paths
\* after the loop over args.models, tracker is what make_tracker_from_cli
\* returns for the tracking arguments
make_predictor_from_cli_topdown_first(heads, tracker) ==
    LET loaded == [h \in 1..Cardinality(heads) |-> "load_json"]
        r == IF "centroid" \in heads /\ "centered_instance" \in heads
             THEN TopdownPredictor_from_trained_models(TRUE, TRUE)
             ELSE IF "multi_instance" \in heads
             THEN BottomupPredictor_from_trained_models
             ELSE IF "single_instance" \in heads
             THEN SingleInstancePredictor_from_trained_models
             ELSE Constructed("ValueError", << "ValueError" >>, NoPredictor)
    IN  IF r.raised # "none"
        THEN Constructed(r.raised, loaded \o r.trace, NoPredictor)
        ELSE Constructed("none",
                 loaded \o r.trace \o << "make_tracker_from_cli" >>,
                 [r.predictor EXCEPT !.tracker = tracker])

make_predictor_from_cli(heads, tracker) ==
    LET loaded == [h \in 1..Cardinality(heads) |-> "load_json"]
        r == IF "multi_instance" \in heads
             THEN BottomupPredictor_from_trained_models
             ELSE IF "single_instance" \in heads
             THEN SingleInstancePredictor_from_trained_models
             ELSE IF "centroid" \in heads /\ "centered_instance" \in heads
             THEN TopdownPredictor_from_trained_models(TRUE, TRUE)
             ELSE Constructed("ValueError", << "ValueError" >>, NoPredictor)
    IN  IF r.raised # "none"
        THEN Constructed(r.raised, loaded \o r.trace, NoPredictor)
        ELSE Constructed("none",
                 loaded \o r.trace \o << "make_tracker_from_cli" >>,
                 [r.predictor EXCEPT !.tracker = tracker])

\* the construction calls: the from_trained_models of the four classes
\* and make_predictor_from_cli with at least one --model
\* no call of an instance_cropping function is under way
NoCall == [fn |-> "none"]

\* main() is not running: the predictor is used from Python
NoCli ==
    [step |-> "none", exists |-> TRUE, opens_at |-> "create", opens |-> 0,
     raised |-> "none", saved |-> FALSE]

NoArgs ==
    [via |-> "none", centroid_model_path |-> FALSE,
     confmap_model_path |-> FALSE, heads |-> {}, tracker |-> NoTracker]

CtorArgs ==
    {[NoArgs EXCEPT !.via = "TopdownPredictor", !.centroid_model_path = c,
                    !.confmap_model_path = m] : c \in BOOLEAN, m \in BOOLEAN}
    \cup {[NoArgs EXCEPT !.via = v] :
              v \in {"BottomupPredictor", "SingleInstancePredictor"}}
    \cup {[NoArgs EXCEPT !.via = "VisualPredictor", !.heads = {h}] :
              h \in HeadNames}
    \cup {[NoArgs EXCEPT !.via = "cli", !.heads = h, !.tracker = t] :
              h \in (SUBSET HeadNames) \ {{}}, t \in Trackers}

Construction(a) ==
    CASE a.via = "TopdownPredictor" ->
            TopdownPredictor_from_trained_models(a.centroid_model_path,
                                                 a.confmap_model_path)
      [] a.via = "BottomupPredictor" -> BottomupPredictor_from_trained_models
      [] a.via = "SingleInstancePredictor" ->
            SingleInstancePredictor_from_trained_models
      [] a.via = "VisualPredictor" ->
            VisualPredictor_from_trained_models(CHOOSE h \in a.heads : TRUE)
      [] OTHER -> make_predictor_from_cli(a.heads, a.tracker)

ResetRun ==
    /\ attempts' = <<>>
    /\ produced' = <<>>
    /\ exhausted' = FALSE
    /\ extra_pull' = FALSE
    /\ sg' = SGInit
    /\ yielded' = <<>>
    /\ grp' = GroupInit
    /\ groups' = <<>>
    /\ predicted_frames' = <<>>
    /\ track_calls' = <<>>
    /\ final_pass_calls' = <<>>

Init ==
    /\ args \in CtorArgs
    /\ pred = NoPredictor
    /\ pc = "new"
    /\ run_provider = "none"
    /\ built_for = "none"
    /\ make_instances = TRUE
    /\ attempts = <<>>
    /\ produced = <<>>
    /\ exhausted = FALSE
    /\ extra_pull = FALSE
    /\ sg = SGInit
    /\ yielded = <<>>
    /\ grp = GroupInit
    /\ groups = <<>>
    /\ predicted_frames = <<>>
    /\ track_calls = <<>>
    /\ final_pass_calls = <<>>
    /\ events = <<>>
    /\ call = NoCall
    /\ returned = <<>>
    /\ cli = NoCli

\* the construction call returns a predictor or raises
Construct ==
    /\ pc = "new"
    /\ LET r == Construction(args)
       IN  /\ pred' = r.predictor
           /\ pc' = IF r.raised # "none" THEN "failed" ELSE "idle"
           /\ events' = r.trace
    /\ args' = NoArgs
    /\ UNCHANGED << run_provider, built_for, make_instances, attempts, produced,
                    exhausted, extra_pull, sg, yielded, grp, groups,
                    predicted_frames, track_calls, final_pass_calls >>
    /\ UNCHANGED << cropvars, cli >>

\* predictor.tracker = tracker by a caller, between predict calls; the
\* result of the last call has been returned (VisualPredictor has no
\* tracker and make_predictor_from_cli never returns one)
SetTracker(t) ==
    /\ pc \in {"idle", "done", "raised"}
    /\ pred.cls # "visual"
    /\ pred.tracker # t
    /\ pred' = [pred EXCEPT !.tracker = t]
    /\ pc' = "idle"
    /\ run_provider' = "none"
    /\ events' = <<>>
    /\ UNCHANGED << args, built_for, make_instances >>
    /\ UNCHANGED << cropvars, cli >>
    /\ ResetRun

\* predict(data_provider, make_instances) up to the first pull: the call of
\* predict_generator; an exception of make_pipeline leaves the call
\* (VisualPredictor.predict returns the records, it assembles no frames)
Predict(data_provider, mi) ==
    /\ pc \in {"idle", "done", "raised"}
    /\ (pred.cls = "visual" => ~mi)
    /\ pred' = predict_generator(pred, data_provider)
    /\ pc' = IF pred'.pipeline.built THEN "running" ELSE "raised"
    /\ events' = IF pred'.pipeline.built THEN <<>>
                 ELSE << MakePipeline(pred, data_provider).error >>
    /\ run_provider' = data_provider
    /\ built_for' = IF pred'.pipeline.built /\ ~pred.pipeline.built
                    THEN data_provider ELSE built_for
    /\ make_instances' = mi
    /\ UNCHANGED args
    /\ UNCHANGED << cropvars, cli >>
    /\ ResetRun

\* the keys of the records that leave the pipeline of this run
OutKeys == FlowKeys(ProviderKeys(pred.pipeline.providers[1]), pred.pipeline.stages)

Example(key, n) ==
    [id |-> Len(attempts) + 1, video_ind |-> key[1], frame_ind |-> key[2],
     ndim |-> IF pred.cls = "bottomup" THEN 3 ELSE 2, n |-> n, keys |-> OutKeys]

\* one pull of the consumer: safely_generate runs one loop iteration and,
\* for a record, the consumer (the grouping loop or list()) takes it
Pull(outcome, example) ==
    LET st == safely_generate(sg, outcome, example)
        g == IF st.out # <<>> /\ make_instances
             THEN group_examples_iter(grp, st.out[1])
             ELSE [last_key |-> grp.last_key, key |-> grp.key,
                   batch |-> grp.batch,
                   out |-> IF st.done /\ make_instances
                           THEN group_examples_flush(grp) ELSE <<>>]
        acc == extend_frames(pred,
                  [predicted_frames |-> predicted_frames,
                   track_calls |-> track_calls,
                   events |-> events \o << outcome >>],
                  g.out)
        fp == IF st.done /\ make_instances
              THEN final_pass(pred, acc.predicted_frames) ELSE <<>>
    IN  /\ sg' = st
        /\ attempts' = Append(attempts, outcome)
        /\ exhausted' = (exhausted \/ outcome = "stop")
        /\ extra_pull' = (extra_pull \/ exhausted)
        /\ produced' = IF outcome = "ok" THEN Append(produced, example)
                       ELSE produced
        /\ yielded' = yielded \o st.out
        /\ grp' = [last_key |-> g.last_key, key |-> g.key, batch |-> g.batch]
        /\ groups' = groups \o g.out
        /\ predicted_frames' = acc.predicted_frames
        /\ track_calls' = acc.track_calls
        /\ final_pass_calls' = final_pass_calls \o fp
        /\ events' = acc.events
                \o (IF fp # <<>> THEN << "final_pass" >> ELSE <<>>)
                \o (IF st.done THEN << "return" >> ELSE <<>>)
        /\ pc' = IF st.raised THEN "raised"
                 ELSE IF st.done THEN "done" ELSE "running"
        /\ UNCHANGED << args, pred, run_provider, built_for, make_instances >>
        /\ UNCHANGED << cropvars, cli >>

\* the steps of make_labeled_frames_from_generator that run code of other
\* modules outside any try: building the instances and the LabeledFrame of
\* a group, tracker.track, tracker.final_pass
RaisePoints == {"raise:assemble", "raise:track", "raise:final_pass"}

\* variant: the exception is caught and the frame is left out
PullRaise_caught(outcome, example, at) ==
    /\ make_instances
    /\ at # "raise:final_pass"
    /\ safely_generate(sg, outcome, example).out # <<>>
    /\ group_examples_iter(grp, example).out # <<>>
    /\ sg' = safely_generate(sg, outcome, example)
    /\ attempts' = Append(attempts, outcome)
    /\ produced' = Append(produced, example)
    /\ yielded' = Append(yielded, example)
    /\ grp' = [last_key |-> KeyOf(example), key |-> KeyOf(example),
               batch |-> << example >>]
    /\ groups' = groups \o group_examples_iter(grp, example).out
    /\ events' = events \o << outcome, "group", at >>
    /\ UNCHANGED << args, pred, pc, run_provider, built_for, make_instances,
                    exhausted, extra_pull, predicted_frames, track_calls,
                    final_pass_calls, cropvars, cli >>

\* one pull of the consumer during which the step "at" raises: the pull
\* yields a group (or ends the stream) as in Pull, the exception leaves
\* make_labeled_frames_from_generator and predict, whose local
\* predicted_frames is lost with the call
PullRaise(outcome, example, at) ==
    LET st == safely_generate(sg, outcome, example)
        g == IF st.out # <<>>
             THEN group_examples_iter(grp, st.out[1])
             ELSE [last_key |-> grp.last_key, key |-> grp.key,
                   batch |-> grp.batch,
                   out |-> IF st.done THEN group_examples_flush(grp) ELSE <<>>]
        acc == extend_frames(pred,
                  [predicted_frames |-> predicted_frames,
                   track_calls |-> track_calls,
                   events |-> events \o << outcome >>],
                  g.out)
    IN  /\ make_instances
        /\ CASE at = "raise:final_pass" ->
                    st.done /\ final_pass(pred, acc.predicted_frames) # <<>>
             [] at = "raise:track" -> acc.track_calls # track_calls
             [] OTHER -> g.out # <<>>
        /\ sg' = st
        /\ attempts' = Append(attempts, outcome)
        /\ exhausted' = (exhausted \/ outcome = "stop")
        /\ extra_pull' = (extra_pull \/ exhausted)
        /\ produced' = IF outcome = "ok" THEN Append(produced, example)
                       ELSE produced
        /\ yielded' = yielded \o st.out
        /\ grp' = [last_key |-> g.last_key, key |-> g.key, batch |-> g.batch]
        /\ groups' = groups \o g.out
        /\ predicted_frames' = IF at = "raise:final_pass"
                               THEN acc.predicted_frames ELSE predicted_frames
        /\ track_calls' = IF at = "raise:final_pass"
                          THEN acc.track_calls ELSE track_calls
        /\ final_pass_calls' = final_pass_calls
        /\ events' = (IF at = "raise:final_pass" THEN acc.events
                      ELSE events \o << outcome, "group" >>) \o << at >>
        /\ pc' = "raised"
        /\ UNCHANGED << args, pred, run_provider, built_for, make_instances >>
        /\ UNCHANGED << cropvars, cli >>

\* next(ds_iter) returns a record
NextOk(key, n) ==
    /\ pc = "running" /\ ~exhausted
    /\ (pred.cls = "bottomup" \/ n = MaxInst)
    /\ Len(attempts) < MaxAttempts
    /\ Pull("ok", Example(key, n))

\* next(ds_iter) raises an Exception
NextErr ==
    /\ pc = "running" /\ ~exhausted
    /\ Len(attempts) < MaxAttempts
    /\ Pull("err", Example(<<0, 0>>, 0))

\* next(ds_iter) raises StopIteration (again, if it is pulled again)
NextStop ==
    /\ pc = "running"
    /\ Len(attempts) <= MaxAttempts
    /\ Pull("stop", Example(<<0, 0>>, 0))

\* next(ds_iter) returns the first record of the next frame, and the
\* assembly or the tracking of the frame that it ends raises
NextOkRaise(key, n, at) ==
    /\ pc = "running" /\ ~exhausted
    /\ (pred.cls = "bottomup" \/ n = MaxInst)
    /\ Len(attempts) < MaxAttempts
    /\ PullRaise("ok", Example(key, n), at)

\* next(ds_iter) raises StopIteration, and the assembly or the tracking of
\* the last frame, or the final pass of the tracker, raises
NextStopRaise(at) ==
    /\ pc = "running"
    /\ Len(attempts) <= MaxAttempts
    /\ PullRaise("stop", Example(<<0, 0>>, 0), at)

Next ==
    \/ Construct
    \/ \E t \in Trackers : SetTracker(t)
    \/ \E p \in Providers, mi \in BOOLEAN : Predict(p, mi)
    \/ \E k \in Keys, n \in InstCounts : NextOk(k, n)
    \/ NextErr
    \/ NextStop

\* the runs in which the code called for a frame (PredictedInstance,
\* LabeledFrame, the tracker) returns; MainSpec has the runs in which it
\* raises as well
Spec == Init /\ [][Next]_vars

\* ---------------------------------------------------------------------
\* main(): the command line run

\* opening the file of args.data_path: a file that is not there raises
OpenVideo(exists) == IF exists THEN "none" ELSE "FileNotFoundError"

\* make_video_reader_from_cli(args): VideoReader.from_filepath makes the
\* Video of the file; an HDF5 backend opens the file when it is made, a
\* media backend when it is made or when the video is first accessed
make_video_reader_from_cli(c) ==
    IF c.opens_at = "create"
    THEN [c EXCEPT !.opens = c.opens + 1, !.raised = OpenVideo(c.exists),
                   !.step = IF c.exists THEN "reader" ELSE "exit"]
    ELSE [c EXCEPT !.step = "reader"]

\* a reader that needs no file: len(video_reader) opens nothing
len_video_reader_unopened(c) ==
    [c EXCEPT !.step = "frames"]

\* print("Frames:", len(video_reader)): the first access of the video
len_video_reader(c) ==
    IF c.opens = 0
    THEN [c EXCEPT !.opens = c.opens + 1, !.raised = OpenVideo(c.exists),
                   !.step = IF c.exists THEN "frames" ELSE "exit"]
    ELSE [c EXCEPT !.step = "frames"]

\* the runs of main(): models given with -m, a data_path that exists or not
MainArgs == {a \in CtorArgs : a.via = "cli"}

MainInit ==
    /\ args \in MainArgs
    /\ pred = NoPredictor
    /\ pc = "new"
    /\ run_provider = "none"
    /\ built_for = "none"
    /\ make_instances = TRUE
    /\ attempts = <<>>
    /\ produced = <<>>
    /\ exhausted = FALSE
    /\ extra_pull = FALSE
    /\ sg = SGInit
    /\ yielded = <<>>
    /\ grp = GroupInit
    /\ groups = <<>>
    /\ predicted_frames = <<>>
    /\ track_calls = <<>>
    /\ final_pass_calls = <<>>
    /\ events = <<>>
    /\ call = NoCall
    /\ returned = <<>>
    /\ cli \in {[NoCli EXCEPT !.step = "start", !.exists = e, !.opens_at = o] :
                   e \in BOOLEAN, o \in {"create", "access"}}

\* video_reader = make_video_reader_from_cli(args)
MainVideoReader ==
    /\ cli.step = "start"
    /\ cli' = make_video_reader_from_cli(cli)
    /\ UNCHANGED << args, pred, pc, run_provider, built_for, make_instances,
                    runvars, cropvars >>

\* print("Frames:", len(video_reader))
MainFrames ==
    /\ cli.step = "reader"
    /\ cli' = len_video_reader(cli)
    /\ UNCHANGED << args, pred, pc, run_provider, built_for, make_instances,
                    runvars, cropvars >>

\* predictor = make_predictor_from_cli(args); an exception ends main()
MainPredictor ==
    /\ cli.step = "frames"
    /\ Construct

\* predicted_frames = predictor.predict(video_reader), up to the first pull
MainPredict ==
    /\ cli.step = "frames"
    /\ pc = "idle"
    /\ Predict("video", TRUE)

\* save_predictions_from_cli(args, predicted_frames), once predict returned
MainSave ==
    /\ cli.step = "frames"
    /\ pc = "done"
    /\ cli' = [cli EXCEPT !.step = "saved", !.saved = TRUE]
    /\ UNCHANGED << args, pred, pc, run_provider, built_for, make_instances,
                    runvars, cropvars >>

MainNext ==
    \/ MainVideoReader
    \/ MainFrames
    \/ MainPredictor
    \/ MainPredict
    \/ \E k \in Keys, n \in InstCounts : NextOk(k, n)
    \/ NextErr
    \/ NextStop
    \/ \E k \in Keys, n \in InstCounts, at \in RaisePoints : NextOkRaise(k, n, at)
    \/ \E at \in RaisePoints : NextStopRaise(at)
    \/ MainSave

MainSpec == MainInit /\ [][MainNext]_vars

\* the stream of one predictor class; the consumer of the generator is a
\* for loop or list(), which keeps pulling
StreamInit == Init /\ args.via = "SingleInstancePredictor"
StreamSpec == StreamInit /\ [][Next]_vars
                /\ WF_vars(NextErr \/ NextStop \/ \E k \in Keys, n \in InstCounts : NextOk(k, n))

TypeOK ==
    /\ pc \in {"new", "failed", "idle", "running", "done", "raised"}
    /\ args \in CtorArgs \cup {NoArgs}
    /\ sg.i \in 0..MaxAttempts
    /\ Len(attempts) <= MaxAttempts + 1

(* --------------------- instance_cropping: calls ------------------------ *)
\* box coordinates are drawn from the tenths of a pixel 0.0 .. MaxTenth / 10
MaxTenth == 9
\* image heights and widths are 1 .. MaxImage
MaxImage == 4
\* number of normalize / unnormalize calls applied in a row
MaxOps == 2

Tenths == 0..MaxTenth
ImageSizes == 1..MaxImage

predvars == << args, pred, pc, run_provider, built_for, make_instances, runvars, cli >>

\* one box (y1, x1, y2, x2) of float32 coordinates and an image size
BboxCalls ==
    {[fn |-> "bboxes",
      bboxes |-> << << F32(a, 10), F32(b, 10), F32(a + 10, 10), F32(b + 10, 10) >> >>,
      image_height |-> h, image_width |-> w] :
        a \in Tenths, b \in Tenths, h \in ImageSizes, w \in ImageSizes}

\* centroid coordinates are drawn from the half pixels 0.0 .. MaxHalf / 2
MaxHalf == 6
\* box heights and widths are 1 .. MaxBox
MaxBox == 3

Halves == 0..MaxHalf
BoxSizes == 1..MaxBox

\* one centroid (x, y) and a box size
CenteredCalls ==
    {[fn |-> "make_centered_bboxes",
      centroids |-> << << F32(x, 2), F32(y, 2) >> >>,
      box_height |-> h, box_width |-> w] :
        x \in Halves, y \in Halves, h \in BoxSizes, w \in BoxSizes}

\* the integer box with corner (y, x), height h and width w
IntBox(y, x, h, w) ==
    << F32(y, 1), F32(x, 1), F32(y + h - 1, 1), F32(x + w - 1, 1) >>

Dtypes == {"uint8", "float32"}

Images == [height : ImageSizes, width : ImageSizes, dtype : Dtypes]

\* an image and a batch of one box, or of two boxes with the same corner
CropBboxesCalls ==
    {[fn |-> "crop_bboxes", image |-> im, bboxes |-> << IntBox(y, x, h, w) >>] :
        im \in Images, y \in 0..(MaxImage - 1), x \in 0..(MaxImage - 1),
        h \in BoxSizes, w \in BoxSizes}
    \cup
    {[fn |-> "crop_bboxes", image |-> im,
      bboxes |-> << IntBox(0, 0, h, w), IntBox(0, 0, h2, w2) >>] :
        im \in Images, h \in BoxSizes, w \in BoxSizes,
        h2 \in BoxSizes, w2 \in BoxSizes}

\* the per-axis extents of the user instances are 0 .. MaxExtent pixels
MaxExtent == 3
\* padding is 0 .. MaxPadding
MaxPadding == 2
\* maximum_stride is 1 .. MaxStride
MaxStride == 4

\* a label set (the extents of its user instances), padding and stride
FindCropSizeCalls ==
    {[fn |-> "find_instance_crop_size", labels |-> l, padding |-> p,
      maximum_stride |-> s] :
        l \in SUBSET (0..MaxExtent), p \in 0..MaxPadding, s \in 1..MaxStride}

\* integer crop sizes are 1 .. MaxCropSize
MaxCropSize == 3

\* what config.crop_size and the crop_size argument can hold
CropSizeValues ==
    {[kind |-> "int", v |-> n] : n \in 1..MaxCropSize}
    \cup {[kind |-> "float", v |-> n] : n \in 1..MaxCropSize}
    \cup {[kind |-> "str", v |-> 0], [kind |-> "none", v |-> 0]}

FromConfigCalls ==
    {[fn |-> "from_config", config |-> [crop_size |-> c], crop_size |-> a] :
        c \in CropSizeValues, a \in CropSizeValues}

\* an input dataset has 0 .. MaxFrames frame records
MaxFrames == 2

\* the frame-level keys a record carries besides the input keys
ExtraKeySets == {{}, {"frame_ind"}, {"video_ind", "frame_ind", "scale"}}

\* the frame record "id" with n instances of one node each and the keys
\* "extras": the centroids lie on the image diagonal from (a / 2, 0) on,
\* the node of instance i at (i - 1 + a / 10, i - 1)
FrameData(id, n, a, extras) ==
    [key \in InstanceCropperInputKeys \cup extras |->
        CASE key = "image" ->
                [height |-> MaxImage, width |-> MaxImage, dtype |-> "uint8"]
          [] key = "instances" ->
                [i \in 1..n |-> << << F32(10 * (i - 1) + a, 10), F32(i - 1, 1) >> >>]
          [] key = "centroids" ->
                [i \in 1..n |-> << F32(2 * (i - 1) + a, 2), F32(i - 1, 1) >>]
          [] OTHER -> << key, id >>]

\* the datasets: every record of a dataset has the same keys
InputDatasets ==
    UNION {{[f \in 1..len |-> FrameData(f, n[f], a[f], extras)] :
               n \in [1..len -> 0..MaxInst], a \in [1..len -> 0..1]} :
           len \in 0..MaxFrames, extras \in ExtraKeySets}

Croppers ==
    [crop_width : BoxSizes, crop_height : {1, 2}, keep_full_image : BOOLEAN]

TransformCalls ==
    {[fn |-> "transform_dataset", self |-> s, input_ds |-> ds] :
        s \in Croppers, ds \in InputDatasets}

CropCalls == BboxCalls \cup CenteredCalls \cup CropBboxesCalls \cup FindCropSizeCalls \cup FromConfigCalls \cup TransformCalls

CropInit ==
    /\ args = NoArgs
    /\ pred = NoPredictor
    /\ pc = "new"
    /\ run_provider = "none"
    /\ built_for = "none"
    /\ make_instances = TRUE
    /\ attempts = <<>>
    /\ produced = <<>>
    /\ exhausted = FALSE
    /\ extra_pull = FALSE
    /\ sg = SGInit
    /\ yielded = <<>>
    /\ grp = GroupInit
    /\ groups = <<>>
    /\ predicted_frames = <<>>
    /\ track_calls = <<>>
    /\ final_pass_calls = <<>>
    /\ events = <<>>
    /\ call \in CropCalls
    /\ returned = <<>>
    /\ cli = NoCli

\* the boxes the next call is applied to
LastBboxes ==
    IF returned = <<>> THEN call.bboxes ELSE returned[Len(returned)].bboxes

NormalizeBboxes ==
    /\ call.fn = "bboxes"
    /\ Len(returned) < MaxOps
    /\ returned' = Append(returned,
          [fn |-> "normalize_bboxes",
           bboxes |-> normalize_bboxes(LastBboxes, call.image_height,
                                       call.image_width)])
    /\ UNCHANGED << call, predvars >>

UnnormalizeBboxes ==
    /\ call.fn = "bboxes"
    /\ Len(returned) < MaxOps
    /\ returned' = Append(returned,
          [fn |-> "unnormalize_bboxes",
           bboxes |-> unnormalize_bboxes(LastBboxes, call.image_height,
                                         call.image_width)])
    /\ UNCHANGED << call, predvars >>

MakeCenteredBboxes ==
    /\ call.fn = "make_centered_bboxes"
    /\ returned = <<>>
    /\ returned' = << make_centered_bboxes(call.centroids, call.box_height,
                                           call.box_width) >>
    /\ UNCHANGED << call, predvars >>

CropBboxes ==
    /\ call.fn = "crop_bboxes"
    /\ returned = <<>>
    /\ returned' = << crop_bboxes(call.image, call.bboxes) >>
    /\ UNCHANGED << call, predvars >>

FindInstanceCropSize ==
    /\ call.fn = "find_instance_crop_size"
    /\ returned = <<>>
    /\ returned' = << find_instance_crop_size_of(call.labels, call.padding,
                                                 call.maximum_stride) >>
    /\ UNCHANGED << call, predvars >>

FromConfig ==
    /\ call.fn = "from_config"
    /\ returned = <<>>
    /\ returned' = << InstanceCropper_from_config(call.config, call.crop_size) >>
    /\ UNCHANGED << call, predvars >>

\* the stage builds its output dataset
TransformDataset ==
    /\ call.fn = "transform_dataset"
    /\ returned = <<>>
    /\ returned' = << InstanceCropper_transform_dataset(call.self, call.input_ds) >>
    /\ UNCHANGED << call, predvars >>

\* a consumer iterates the output dataset to its end
ReadDataset ==
    /\ call.fn = "transform_dataset"
    /\ Len(returned) = 1
    /\ returned[1].raised = "none"
    /\ returned' = Append(returned,
                          output_ds(call.self, returned[1], call.input_ds))
    /\ UNCHANGED << call, predvars >>

CropNext ==
    \/ NormalizeBboxes
    \/ UnnormalizeBboxes
    \/ MakeCenteredBboxes
    \/ CropBboxes
    \/ FindInstanceCropSize
    \/ FromConfig
    \/ TransformDataset
    \/ ReadDataset

CropSpec == CropInit /\ [][CropNext]_vars

(* ------------------------------ properties ----------------------------- *)
Count(seq, x) == Cardinality({j \in DOMAIN seq : seq[j] = x})

\* zero-based positions of the failed attempts among all attempts
RECURSIVE ErrPositions(_)
ErrPositions(a) ==
    IF a = <<>> THEN <<>>
    ELSE LET n == Len(a)
         IN  ErrPositions(SubSeq(a, 1, n - 1))
                \o (IF a[n] = "err" THEN << n - 1 >> ELSE <<>>)

\* C1: safely_generate never raises to its consumer, yields every record the
\* upstream produced, in production order, and when it has finished the
\* upstream has been consumed up to its end-of-sequence: of n attempts with
\* k failures exactly n-k records were yielded.
C1_FaultIsolation ==
    /\ ~sg.raised
    /\ yielded = produced
    /\ (pc = "done" =>
            /\ exhausted
            /\ attempts[Len(attempts)] = "stop"
            /\ Len(yielded) = (Len(attempts) - 1) - Count(attempts, "err"))

C1_Witness ==
    /\ pc = "done"
    /\ attempts = << "ok", "err", "ok", "stop" >>
    /\ Len(yielded) = 2

\* C2: the error log of safely_generate has exactly one entry per failed
\* attempt, none for a successful one, and each entry is the zero-based
\* position of the failed attempt among all attempts made so far.
C2_ErrorLog == sg.log = ErrPositions(attempts)

C2_Witness == attempts = << "ok", "err", "err" >> /\ sg.log = << 1, 2 >>

\* C3: safely_generate is done exactly when the upstream has signalled
\* end-of-sequence (an error never ends it), the upstream is never pulled
\* after its end-of-sequence, and every run that is pulled to the end of the
\* upstream finishes.
C3_Termination ==
    /\ [](sg.done <=> exhausted)
    /\ [](~extra_pull)
    /\ [](pc = "done" => sg.done)
    /\ ((pc = "running") ~> sg.done)

C3_Witness ==
    /\ sg.done
    /\ Count(attempts, "err") >= 1
    /\ Len(attempts) = MaxAttempts + 1

GroupKeys == [j \in DOMAIN groups |-> groups[j].key]

RECURSIVE Concat(_)
Concat(gs) == IF gs = <<>> THEN <<>> ELSE Head(gs).batch \o Concat(Tail(gs))

\* the keys of a record sequence are non-decreasing
Ordered(recs) ==
    \A j \in 1..(Len(recs) - 1) : KeyLeq(KeyOf(recs[j]), KeyOf(recs[j + 1]))

\* a sequence of keys is strictly increasing
Ascending(ks) == \A j \in 1..(Len(ks) - 1) : KeyLess(ks[j], ks[j + 1])

\* a key occurs in two runs that another key separates
Split(recs) ==
    \E a, b, c \in DOMAIN recs :
        /\ a < b /\ b < c
        /\ KeyOf(recs[a]) = KeyOf(recs[c])
        /\ KeyOf(recs[a]) # KeyOf(recs[b])

\* the keys of the maximal runs of equal keys, in order
RECURSIVE RunKeys(_)
RunKeys(recs) ==
    IF recs = <<>> THEN <<>>
    ELSE LET n == Len(recs)
             front == SubSeq(recs, 1, n - 1)
         IN  IF n > 1 /\ KeyOf(recs[n - 1]) = KeyOf(recs[n])
             THEN RunKeys(front)
             ELSE Append(RunKeys(front), KeyOf(recs[n]))

\* number of instances a record carries
InstCount(e) == IF e.ndim = 3 THEN e.n ELSE 1

\* identities <<record, row>> of the instances of a batch, in stream order
RECURSIVE InstanceIds(_)
InstanceIds(batch) ==
    IF batch = <<>> THEN <<>>
    ELSE LET e == Head(batch)
         IN  [j \in 1..InstCount(e) |-> << e.id, j >>] \o InstanceIds(Tail(batch))

Ids(instances) ==
    [j \in DOMAIN instances |-> << instances[j].rec, instances[j].row >>]

\* the groups that carry at least one instance
HasInstance(g) == \E j \in DOMAIN g.batch : InstCount(g.batch[j]) > 0
InstanceGroups == SelectSeq(groups, HasInstance)

Tracking == pred.cls \in {"topdown", "bottomup"} /\ pred.tracker.present

\* C4: group_examples_iter emits non-empty batches whose records all have
\* the emitted key, consecutive batches have different keys, and the
\* batches (with the batch still held while running) concatenate to the
\* input; an empty input emits nothing.
C4_Partition ==
    make_instances =>
        /\ \A j \in DOMAIN groups :
              /\ groups[j].batch # <<>>
              /\ \A m \in DOMAIN groups[j].batch :
                    KeyOf(groups[j].batch[m]) = groups[j].key
        /\ \A j \in 1..(Len(groups) - 1) : groups[j].key # groups[j + 1].key
        /\ (IF pc = "done" THEN Concat(groups) = yielded
            ELSE Concat(groups) \o grp.batch = yielded)
        /\ (yielded = <<>> => groups = <<>>)

C4_Witness ==
    /\ pc = "done" /\ make_instances
    /\ Len(groups) = 2
    /\ Len(groups[1].batch) = 2

\* C5: for an input with non-decreasing keys, group_examples_iter emits
\* every distinct key once, in ascending order, and the batch of each key
\* is the list group_examples builds for that key.
C5_MatchesGroupExamples ==
    (pc = "done" /\ make_instances /\ Ordered(yielded)) =>
        LET d == group_examples(yielded)
        IN  /\ Ascending(GroupKeys)
            /\ {groups[j].key : j \in DOMAIN groups} = DOMAIN d
            /\ \A j \in DOMAIN groups : d[groups[j].key] = groups[j].batch

C5_Witness ==
    /\ pc = "done" /\ make_instances /\ Ordered(yielded)
    /\ Len(yielded) = 3
    /\ Len(groups) = 2

\* C6: when a key occurs in two runs separated by another key, grouping
\* does not fail, the emitted keys are the keys of the runs in stream order
\* (nothing merged, nothing sorted), each group with an instance gives one
\* LabeledFrame, and for per-instance records there is one frame per run.
C6_SplitRuns ==
    (pc = "done" /\ make_instances /\ Split(yielded)) =>
        /\ GroupKeys = RunKeys(yielded)
        /\ Len(predicted_frames) = Len(InstanceGroups)
        /\ \A j \in DOMAIN predicted_frames :
              /\ << predicted_frames[j].video, predicted_frames[j].frame_idx >>
                    = InstanceGroups[j].key
              /\ Len(predicted_frames[j].instances)
                    = Len(InstanceIds(InstanceGroups[j].batch))
        /\ (pred.cls # "bottomup" =>
                Len(predicted_frames) = Len(RunKeys(yielded)))

C6_Witness ==
    /\ pc = "done" /\ make_instances /\ Split(yielded)
    /\ pred.cls = "topdown"
    /\ Len(predicted_frames) = 3

\* C7: with a tracker on a Topdown or Bottomup predictor there is one
\* tracker.track call per group with an instance, its untracked_instances
\* are all instances of the group in stream order, its t is the frame index
\* of the group, and the LabeledFrame of the group holds what it returned.
C7_TrackingHook ==
    (Tracking /\ make_instances) =>
        /\ Len(track_calls) = Len(InstanceGroups)
        /\ Len(predicted_frames) = Len(InstanceGroups)
        /\ \A j \in DOMAIN track_calls :
              /\ Ids(track_calls[j].untracked_instances)
                    = InstanceIds(InstanceGroups[j].batch)
              /\ track_calls[j].t = InstanceGroups[j].key[2]
              /\ predicted_frames[j].instances = track_calls[j].returned
              /\ predicted_frames[j].frame_idx = track_calls[j].t
              /\ \A m \in DOMAIN predicted_frames[j].instances :
                    predicted_frames[j].instances[m].tracked

C7_Witness ==
    /\ Tracking /\ make_instances
    /\ Len(track_calls) = 2
    /\ Len(track_calls[1].untracked_instances) >= 2

\* C8: the (video, t) of the successive tracker.track calls are the keys of
\* the groups with an instance in the order they left the stream, and for
\* records with non-decreasing keys they are strictly increasing, also
\* when attempts failed in between.
C8_TrackOrder ==
    (Tracking /\ make_instances) =>
        LET ks == [j \in DOMAIN track_calls |->
                      << track_calls[j].video, track_calls[j].t >>]
        IN  /\ ks = [j \in DOMAIN InstanceGroups |-> InstanceGroups[j].key]
            /\ (Ordered(produced) => Ascending(ks))

C8_Witness ==
    /\ Tracking /\ make_instances /\ Ordered(produced)
    /\ Count(attempts, "err") >= 1
    /\ Len(track_calls) = 2

IndexOf(ev) == {j \in DOMAIN events : events[j] = ev}

\* C9 as stated: every finished predict run of a Topdown or Bottomup
\* predictor with a tracker has called tracker.final_pass exactly once.
C9_FinalPassEveryRun ==
    (pc = "done" /\ Tracking) => Len(final_pass_calls) = 1

\* C9 amended: a run that assembles LabeledFrames (make_instances true)
\* calls tracker.final_pass exactly once, after the end of the stream and
\* after every tracker.track call, with all LabeledFrames produced; a run
\* with make_instances false, and a run without a tracker, call neither
\* track nor final_pass.
C9_FinalPass ==
    /\ (pc = "running" => final_pass_calls = <<>>)
    /\ ((pc = "done" /\ Tracking /\ make_instances) =>
            /\ final_pass_calls = << predicted_frames >>
            /\ Cardinality(IndexOf("final_pass")) = 1
            /\ \A j \in IndexOf("final_pass") :
                  \A k \in IndexOf("track") \cup IndexOf("stop") : k < j)
    /\ ((~Tracking \/ ~make_instances) =>
            track_calls = <<>> /\ final_pass_calls = <<>>)

C9_Witness ==
    /\ pc = "done" /\ Tracking /\ make_instances
    /\ Len(track_calls) = 2
    /\ Len(final_pass_calls) = 1
    /\ Len(final_pass_calls[1]) = 2

\* C10: in every tracker.track call img is non-null only if the tracker
\* that receives the call has uses_image true.
C10_ImageOnlyIfUsed ==
    \A j \in DOMAIN track_calls :
        track_calls[j].img # <<>> => track_calls[j].tracker.uses_image

\* keep_full_image of the make_pipeline call of this run's pipeline: the key
\* filter of a built chain keeps the image key exactly when it was true; a
\* build that raised was made for the tracker still attached
ImageKeptAtBuild ==
    IF pred.pipeline.built
    THEN \E i \in DOMAIN pred.pipeline.stages :
            /\ pred.pipeline.stages[i].name = "KeyFilter"
            /\ pred.pipeline.stages[i].keep \cap {"image", "full_image"} # {}
    ELSE KeepFullImage(pred.tracker)

\* a model is replaced by ground truth only with a provider that has it
GroundTruthAvailable ==
    (pred.cls = "topdown" /\ ~(pred.centroid_model /\ pred.confmap_model))
        => run_provider = "labels"

\* C11: when the tracker has uses_image true at the time the pipeline is
\* built, a predict run of the Bottomup predictor and of the Topdown
\* predictor in every model combination (centroid model present or replaced
\* by ground-truth centroids) gets its pipeline and hands every
\* tracker.track call the full image of the frame as a non-null img.
C11_TrackerGetsImage ==
    (/\ Tracking /\ make_instances
     /\ pc \in {"running", "done", "raised"}
     /\ GroundTruthAvailable
     /\ ImageKeptAtBuild) =>
        /\ pred.pipeline.built
        /\ \A j \in DOMAIN track_calls :
              track_calls[j].img
                  = << << track_calls[j].video, track_calls[j].t >> >>

\* a step that is a predict_generator call which returned its generator
PredictStep == pc # "running" /\ pc' = "running"

BuiltFor(p) ==
    {b.stages : b \in {c \in {MakePipeline([pred EXCEPT !.tracker = t,
                                                  !.pipeline = NoPipeline], p) :
                                 t \in Trackers} : c.ok}}

StageNames == {pred.pipeline.stages[i].name : i \in DOMAIN pred.pipeline.stages}

\* a stage of that name that reads that key is in the chain
HasStage(name, key) ==
    \E i \in DOMAIN pred.pipeline.stages :
        /\ pred.pipeline.stages[i].name = name
        /\ key \in pred.pipeline.stages[i].reads

\* C14: the stage chain a Topdown predictor builds on its first predict
\* call contains, with a centroid model, the local peak finder, the
\* empty-frame filter and the predicted-instance cropper, and without one
\* the ground-truth centroid finder, the renamer and the instance cropper;
\* with a confidence-map model the network predictor and the global peak
\* finder, and without one the mock global peak finder; in every
\* combination it ends with the key filter followed by the
\* predicted-center-instance normalizer.
C14_MockSubstitution ==
    (/\ pred.cls = "topdown"
     /\ pc \in {"running", "done", "raised"}
     /\ GroundTruthAvailable) =>
        /\ pred.pipeline.built
        /\ IF pred.centroid_model
           THEN {"LocalPeakFinder", "LambdaFilter", "PredictedInstanceCropper"}
                    \subseteq StageNames
           ELSE /\ {"InstanceCentroidFinder", "InstanceCropper"}
                       \subseteq StageNames
                /\ HasStage("KeyRenamer", "full_image")
        /\ IF pred.confmap_model
           THEN /\ HasStage("KerasModelPredictor", "instance_image")
                /\ "GlobalPeakFinder" \in StageNames
           ELSE "MockGlobalPeakFinder" \in StageNames
        /\ LET n == Len(pred.pipeline.stages)
           IN  /\ n >= 2
               /\ pred.pipeline.stages[n - 1].name = "KeyFilter"
               /\ pred.pipeline.stages[n].name
                     = "PredictedCenterInstanceNormalizer"

\* C15: TopdownPredictor.from_trained_models with neither path raises
\* ValueError before any configuration or model is loaded and returns no
\* predictor; with at least one path it returns a predictor whose absent
\* model and configuration are both None and whose given ones are loaded.
C15_FromTrainedModels ==
    [][(pc = "new" /\ args.via = "TopdownPredictor") =>
          IF ~args.centroid_model_path /\ ~args.confmap_model_path
          THEN /\ pc' = "failed"
               /\ pred' = NoPredictor
               /\ events' = << "ValueError" >>
          ELSE /\ pc' = "idle"
               /\ pred'.cls = "topdown"
               /\ pred'.centroid_config = args.centroid_model_path
               /\ pred'.centroid_model = args.centroid_model_path
               /\ pred'.confmap_config = args.confmap_model_path
               /\ pred'.confmap_model = args.confmap_model_path
               /\ \A j \in DOMAIN events' : events'[j] # "ValueError"
               /\ ~pred'.pipeline.built /\ pred'.tracker = NoTracker]_vars

C15_Witness ==
    /\ pc = "failed"
    /\ pred = NoPredictor
    /\ events = << "ValueError" >>

\* C16: every configuration error (no crop size resolvable, no model for a
\* required head) is raised by the construction call; once a predictor has
\* been constructed, no predict call raises one while it builds the
\* pipeline on first use.
C16_ErrorsAtConstruction ==
    ~(/\ pc = "raised"
      /\ ~pred.pipeline.built
      /\ events \in {<< "AttributeError" >>, << "NameError" >>,
                     << "TypeError" >>})

\* C17: make_predictor_from_cli selects by the heads of the given models:
\* Bottomup if multi_instance is among them, otherwise SingleInstance if
\* single_instance is, otherwise Topdown if and only if centroid and
\* centered_instance both are; for every other set of heads it raises
\* ValueError; the tracker is made and attached only after a predictor was
\* selected, and not at all when none was.
C17_CliSelection ==
    [][(pc = "new" /\ args.via = "cli") =>
          /\ IF "multi_instance" \in args.heads
             THEN pc' = "idle" /\ pred'.cls = "bottomup"
             ELSE IF "single_instance" \in args.heads
             THEN pc' = "idle" /\ pred'.cls = "single"
             ELSE IF {"centroid", "centered_instance"} \subseteq args.heads
             THEN /\ pc' = "idle" /\ pred'.cls = "topdown"
                  /\ pred'.centroid_model /\ pred'.confmap_model
             ELSE /\ pc' = "failed" /\ pred' = NoPredictor
                  /\ events'[Len(events')] = "ValueError"
                  /\ \A j \in DOMAIN events' :
                        events'[j] # "make_tracker_from_cli"
          /\ (pc' = "idle" =>
                 /\ pred'.tracker = args.tracker
                 /\ \A j \in DOMAIN events' :
                       events'[j] = "make_tracker_from_cli" <=> j = Len(events'))]_vars

C17_Witness ==
    /\ pc = "idle"
    /\ pred.cls = "topdown"
    /\ pred.tracker.present
    /\ events # <<>>
    /\ events[Len(events)] = "make_tracker_from_cli"

\* the keys the stages of a chain read that the record does not carry when
\* it reaches them
RECURSIVE MissingKeys(_, _)
MissingKeys(keys, stages) ==
    IF stages = <<>> THEN {}
    ELSE (Head(stages).reads \ keys)
            \cup MissingKeys(ApplyStage(keys, Head(stages)), Tail(stages))

\* the keys group_examples_iter and make_grouped_labeled_frame index with
\* example[...] for the arguments of each predictor's make_lfs
FrameKeys ==
    CASE pred.cls = "topdown" ->
            {"video_ind", "frame_ind", "predicted_instance",
             "predicted_instance_confidences", "predicted_centroid_confidence"}
      [] pred.cls = "bottomup" ->
            {"video_ind", "frame_ind", "predicted_instances",
             "predicted_peak_scores", "predicted_instance_scores"}
      [] pred.cls = "single" ->
            {"video_ind", "frame_ind", "predicted_instance",
             "predicted_instance_confidences"}
      [] OTHER -> {}

\* C18: every predictor (Visual, SingleInstance, Bottomup, and Topdown in
\* each model combination) assembles its pipeline on the first predict
\* call, and in that pipeline every key a stage reads and every key read
\* when frames are assembled is supplied by the data provider or written
\* by an earlier stage and not removed by a key filter or a renamer since.
C18_KeyFlow ==
    (pc \in {"running", "done", "raised"} /\ GroundTruthAvailable) =>
        /\ pred.pipeline.built
        /\ MissingKeys(ProviderKeys(run_provider), pred.pipeline.stages) = {}
        /\ FrameKeys \subseteq OutKeys

\* filter_fn of the LambdaFilter stages: len(ex[peaks_key]) > 0
LambdaFilterPasses(peaks) == peaks > 0

\* a record with that many detected peaks is handed to stage k of the chain
Reaches(peaks, k) ==
    \A j \in 1..(k - 1) :
        pred.pipeline.stages[j].name = "LambdaFilter" => LambdaFilterPasses(peaks)

\* stages that assemble instances from detected peaks
AssemblyStages == {"PredictedInstanceCropper", "PartAffinityFieldInstanceGrouper"}

\* C19: in the Topdown pipeline with a centroid model and in the Bottomup
\* pipeline a filter on the peaks key of the local peak finder sits after
\* the local peak finder and before the predicted-instance cropper or the
\* part-affinity-field grouper, so that these stages never receive a
\* record with zero detected peaks.
C19_EmptyFrameFilter ==
    (/\ pred.pipeline.built
     /\ (pred.cls = "bottomup" \/ (pred.cls = "topdown" /\ pred.centroid_model))) =>
        LET st == pred.pipeline.stages
        IN  /\ \E k \in DOMAIN st : st[k].name \in AssemblyStages
            /\ \A k \in DOMAIN st :
                  st[k].name \in AssemblyStages =>
                     /\ \E i \in 1..(k - 1), j \in 1..(k - 1) :
                           /\ i < j
                           /\ st[i].name = "LocalPeakFinder"
                           /\ st[j].name = "LambdaFilter"
                           /\ st[j].reads \subseteq st[i].adds
                           /\ st[j].reads \subseteq st[k].reads
                     /\ \A peaks \in 0..MaxInst : Reaches(peaks, k) => peaks > 0

C19_Witness ==
    /\ pred.cls = "topdown" /\ pred.centroid_model
    /\ pred.pipeline.built
    /\ pc = "running"
    /\ Len(yielded) >= 1

\* C20: make_grouped_labeled_frame returns at most one LabeledFrame per
\* frame group and none for a group without predicted instances: the
\* LabeledFrames are those of the groups with an instance, one each and in
\* order, every LabeledFrame has at least one instance and tracker.track
\* is never called with an empty instance list.
C20_NoDegenerateFrames ==
    /\ Len(predicted_frames) <= Len(groups)
    /\ (make_instances =>
           /\ Len(predicted_frames) = Len(InstanceGroups)
           /\ \A j \in DOMAIN predicted_frames :
                 << predicted_frames[j].video, predicted_frames[j].frame_idx >>
                     = InstanceGroups[j].key)
    /\ \A j \in DOMAIN predicted_frames :
          Len(predicted_frames[j].instances) >= 1
    /\ \A j \in DOMAIN track_calls :
          Len(track_calls[j].untracked_instances) >= 1

\* a finished tracked run in which a group without instances gave no frame
C20_Witness ==
    /\ pc = "done" /\ Tracking /\ make_instances
    /\ Len(groups) = 2
    /\ Len(predicted_frames) = 1
    /\ Len(track_calls) = 1

\* C21: end to end for the single-instance predictor: when the provider's
\* n frames have pairwise distinct (video_ind, frame_ind) keys and k of
\* them fail during production, predict returns exactly n - k
\* LabeledFrames, in provider order, each for the video and frame index of
\* its record and each with exactly one instance built from that record's
\* points.
C21_SingleEndToEnd ==
    LET n == Count(attempts, "ok") + Count(attempts, "err")
        k == Count(attempts, "err")
        distinct == \A i, j \in DOMAIN produced :
                        i # j => KeyOf(produced[i]) # KeyOf(produced[j])
    IN  (pred.cls = "single" /\ pc = "done" /\ make_instances /\ distinct) =>
            /\ Len(predicted_frames) = n - k
            /\ Len(produced) = n - k
            /\ \A j \in DOMAIN predicted_frames :
                  /\ predicted_frames[j].video = produced[j].video_ind
                  /\ predicted_frames[j].frame_idx = produced[j].frame_ind
                  /\ predicted_frames[j].instances
                        = << PredictedInstance(produced[j].id, 1) >>

\* a finished single-instance run of three frames of which one failed
C21_Witness ==
    /\ pred.cls = "single" /\ pc = "done" /\ make_instances
    /\ Count(attempts, "err") = 1
    /\ Len(produced) = 2
    /\ KeyOf(produced[1]) # KeyOf(produced[2])
    /\ Len(predicted_frames) = 2

(* ------------------- normalize / unnormalize round trip ---------------- *)
\* the neighbours of a finite non-zero float32 value
F32Up(x) ==
    IF x.m > 0
    THEN (IF x.m + 1 = 2 * Mant THEN Num(Mant, x.e + 1) ELSE Num(x.m + 1, x.e))
    ELSE (IF x.m = -Mant THEN Num(1 - 2 * Mant, x.e - 1) ELSE Num(x.m + 1, x.e))

F32Down(x) ==
    IF x.m < 0
    THEN (IF x.m - 1 = -2 * Mant THEN Num(-Mant, x.e + 1) ELSE Num(x.m - 1, x.e))
    ELSE (IF x.m = Mant THEN Num(2 * Mant - 1, x.e - 1) ELSE Num(x.m - 1, x.e))

\* a is b or one of the two float32 values next to b
F32Near(a, b) ==
    \/ a = b
    \/ /\ a.kind = "num" /\ b.kind = "num" /\ b.m # 0
       /\ a \in {F32Up(b), F32Down(b)}

\* the boxes before the j-th call
BboxesBefore(j) == IF j = 1 THEN call.bboxes ELSE returned[j - 1].bboxes

\* the calls j - 1 and j are a normalize and an unnormalize, in either order
RoundTripAt(j) ==
    /\ call.fn = "bboxes"
    /\ call.image_height > 1 /\ call.image_width > 1
    /\ j \in DOMAIN returned /\ j >= 2
    /\ returned[j - 1].fn # returned[j].fn

IsPow2(d) == d \in {1, 2, 4, 8, 16}

OnHalfGrid(x) ==
    /\ x.kind = "num"
    /\ (x.m # 0 /\ x.e < -1 => x.m % 2^(-1 - x.e) = 0)

\* that number of half pixels
HalfPixels(x) ==
    IF x.m = 0 THEN 0
    ELSE IF x.e >= -1 THEN x.m * 2^(x.e + 1)
    ELSE x.m \div 2^(-1 - x.e)

\* C23: for every centroid (x, y) and positive integer box_height h and
\* box_width w, make_centered_bboxes returns the box (y1, x1, y2, x2) =
\* (y - (h-1)/2, x - (w-1)/2, y + (h-1)/2, x + (w-1)/2), so that
\* x2 - x1 + 1 = w, y2 - y1 + 1 = h and the midpoint of the box is the
\* centroid, for odd and for even sizes: centroid x = 2 with w = 3 spans
\* the columns 1..3 and centroid x = 1.5 with w = 2 the columns 1..2.
\* (All quantities are counted in half pixels.)
C23_CenteredBoxes ==
    (call.fn = "make_centered_bboxes" /\ returned # <<>>) =>
        LET box == returned[1][1]
            x == HalfPixels(call.centroids[1][1])
            y == HalfPixels(call.centroids[1][2])
            h == call.box_height
            w == call.box_width
            y1 == HalfPixels(box[1])
            x1 == HalfPixels(box[2])
            y2 == HalfPixels(box[3])
            x2 == HalfPixels(box[4])
        IN  /\ Len(returned[1]) = Len(call.centroids)
            /\ \A c \in 1..4 : OnHalfGrid(box[c])
            /\ << y1, x1, y2, x2 >>
                  = << y - (h - 1), x - (w - 1), y + (h - 1), x + (w - 1) >>
            /\ F32Add(F32Sub(box[4], box[2]), F32(1, 1)) = F32(w, 1)
            /\ F32Add(F32Sub(box[3], box[1]), F32(1, 1)) = F32(h, 1)
            /\ x1 + x2 = 2 * x /\ y1 + y2 = 2 * y
            /\ (x = 4 /\ w = 3 => x1 = 2 /\ x2 = 6)
            /\ (x = 3 /\ w = 2 => x1 = 2 /\ x2 = 4)

\* the box of even width 2 around the centroid x = 1.5 has been returned
C23_Witness ==
    /\ call.fn = "make_centered_bboxes" /\ returned # <<>>
    /\ call.centroids[1][1] = F32(3, 2)
    /\ call.box_width = 2 /\ call.box_height = 3
    /\ returned[1][1][2] = F32(1, 1) /\ returned[1][1][4] = F32(2, 1)

(* ------------------------------ crop_bboxes ---------------------------- *)
\* the whole-pixel coordinate of a box coordinate
Pixel(x) == HalfPixels(x) \div 2

\* the box lies inside the image
Inside(box, image) ==
    /\ 0 <= Pixel(box[1]) /\ Pixel(box[1]) <= Pixel(box[3])
    /\ Pixel(box[3]) <= image.height - 1
    /\ 0 <= Pixel(box[2]) /\ Pixel(box[2]) <= Pixel(box[4])
    /\ Pixel(box[4]) <= image.width - 1

\* the crop is the slice image[y1 : y2 + 1, x1 : x2 + 1]
IsSlice(crop, box) ==
    LET y1 == Pixel(box[1])
        x1 == Pixel(box[2])
        y2 == Pixel(box[3])
        x2 == Pixel(box[4])
    IN  /\ DOMAIN crop = 0..(y2 - y1)
        /\ \A i \in DOMAIN crop :
              /\ DOMAIN crop[i] = 0..(x2 - x1)
              /\ \A j \in DOMAIN crop[i] :
                    /\ crop[i][j].y = [kind |-> "pixel", at |-> y1 + i]
                    /\ crop[i][j].x = [kind |-> "pixel", at |-> x1 + j]

\* C25: crop_bboxes on a box with integer coordinates (y1, x1, y2, x2)
\* lying inside the image returns a crop of height y2 - y1 + 1 and width
\* x2 - x1 + 1 whose pixels are identical to the slice
\* image[y1 : y2 + 1, x1 : x2 + 1], with the dtype of the image.
C25_CropIsSlice ==
    (/\ call.fn = "crop_bboxes" /\ returned # <<>>
     /\ Len(call.bboxes) = 1
     /\ Inside(call.bboxes[1], call.image)) =>
        LET box == call.bboxes[1]
            r == returned[1]
        IN  /\ r.raised = "none"
            /\ r.dtype = call.image.dtype
            /\ r.box_size = << Pixel(box[3]) - Pixel(box[1]) + 1,
                               Pixel(box[4]) - Pixel(box[2]) + 1 >>
            /\ Len(r.crops) = 1
            /\ IsSlice(r.crops[1], box)

\* the sizes of the boxes of the batch differ
MixedSizes(bboxes) ==
    \E m, n \in DOMAIN bboxes :
        \/ Pixel(bboxes[m][3]) - Pixel(bboxes[m][1])
              # Pixel(bboxes[n][3]) - Pixel(bboxes[n][1])
        \/ Pixel(bboxes[m][4]) - Pixel(bboxes[m][2])
              # Pixel(bboxes[n][4]) - Pixel(bboxes[n][2])

\* C26: a batch of bounding boxes whose boxes do not all share the same
\* crop size is a contract violation that is not silently handled:
\* crop_bboxes returns no crops for such a batch.
C26_MixedSizesRejected ==
    (/\ call.fn = "crop_bboxes" /\ returned # <<>>
     /\ MixedSizes(call.bboxes)) =>
        /\ returned[1].raised # "none"
        /\ returned[1].crops = <<>>

(* ------------------------ find_instance_crop_size ---------------------- *)
\* n rounded up to the nearest multiple of stride
RoundUp(n, stride) == ((n + stride - 1) \div stride) * stride

\* C27: find_instance_crop_size(labels, padding, stride) returns the
\* largest per-axis extent of any user instance of the label set, rounded
\* up to the nearest multiple of the stride, plus the padding.
C27_CropSize ==
    (call.fn = "find_instance_crop_size" /\ returned # <<>>) =>
        /\ returned[1].raised = "none"
        /\ returned[1].crop_size
              = << RoundUp(MaxLength(call.labels), call.maximum_stride)
                      + call.padding >>

(* ----------------------- InstanceCropper.from_config ------------------- *)
\* C28: InstanceCropper.from_config resolves the crop size in this order:
\* an integer config.crop_size wins over the crop_size argument; otherwise
\* an integer argument is used; if neither is an integer it raises
\* ValueError and builds no cropper.  The cropper it returns has
\* crop_width = crop_height = the resolved size and keep_full_image false.
C28_FromConfig ==
    (call.fn = "from_config" /\ returned # <<>>) =>
        LET r == returned[1]
            c == call.config.crop_size
            a == call.crop_size
            built(size) ==
                /\ r.raised = "none"
                /\ r.cropper = << [crop_width |-> size, crop_height |-> size,
                                   keep_full_image |-> FALSE] >>
        IN  /\ (c.kind = "int" => built(c.v))
            /\ (c.kind # "int" /\ a.kind = "int" => built(a.v))
            /\ (c.kind # "int" /\ a.kind # "int" =>
                    r.raised = "ValueError" /\ r.cropper = <<>>)

\* from_config with two different integers returned the config's size
C28_Witness ==
    /\ call.fn = "from_config" /\ returned # <<>>
    /\ call.config.crop_size = [kind |-> "int", v |-> 2]
    /\ call.crop_size = [kind |-> "int", v |-> 3]
    /\ returned[1].cropper[1].crop_width = 2

(* ------------------- InstanceCropper.transform_dataset ----------------- *)
\* the output records made from input frame f, in output order
RecordsOf(elements, f) ==
    SelectSeq(elements, LAMBDA el : el.frame = f)

\* C22: fan-out: InstanceCropper turns each input frame record with N
\* instances into exactly N output records, emitted in instance order with
\* center_instance_ind = 0..N-1 and before any record of the next frame,
\* and every frame-level key that is not one of the stage's input keys is
\* copied unchanged onto each of the N records.
C22_FanOut ==
    (call.fn = "transform_dataset" /\ Len(returned) = 2) =>
        LET els == returned[2].elements
            ds == call.input_ds
        IN  /\ \A f \in DOMAIN ds :
                  LET recs == RecordsOf(els, f)
                      N == Len(ds[f]["instances"])
                  IN  /\ Len(recs) = N
                      /\ \A n \in 1..N :
                            /\ recs[n].data["center_instance_ind"] = n - 1
                            /\ recs[n].data["centroid"] = ds[f]["centroids"][n]
                            /\ \A key \in DOMAIN ds[f] \ InstanceCropperInputKeys :
                                  /\ key \in DOMAIN recs[n].data
                                  /\ recs[n].data[key] = ds[f][key]
            /\ \A i, j \in DOMAIN els : i < j => els[i].frame <= els[j].frame
            /\ \A i \in DOMAIN els : els[i].frame \in DOMAIN ds

\* a dataset of a frame with two instances and a frame with one was turned
\* into three records that carry the frame-level keys
C22_Witness ==
    /\ call.fn = "transform_dataset" /\ Len(returned) = 2
    /\ Len(call.input_ds) = 2
    /\ Len(call.input_ds[1]["instances"]) = 2
    /\ Len(call.input_ds[2]["instances"]) = 1
    /\ "frame_ind" \in DOMAIN call.input_ds[1]
    /\ Len(returned[2].elements) = 3
    /\ returned[2].elements[3].data["frame_ind"] = << "frame_ind", 2 >>

(* ------------------------------- lazy build ---------------------------- *)
\* C29: building a pipeline's dataset (every stage's transform_dataset,
\* including the InstanceCropper's, and predict_generator returning its
\* generator) pulls no record from the upstream provider; records are
\* pulled only when the consumer requests an output record.
C29_LazyBuild ==
    (call.fn = "transform_dataset" /\ Len(returned) = 1) =>
        returned[1].pulled = <<>>

C31_OutputKeySet ==
    (call.fn = "transform_dataset" /\ Len(returned) = 2) =>
        \A i \in DOMAIN returned[2].elements :
            LET el == returned[2].elements[i]
                keys == DOMAIN el.data
            IN  /\ keys = InstanceCropper_output_keys(call.self)
                            \cup (DOMAIN call.input_ds[el.frame]
                                    \ InstanceCropperInputKeys)
                /\ "instances" \notin keys /\ "centroids" \notin keys
                /\ ("image" \in keys <=> call.self.keep_full_image)

\* records were made with keep_full_image from frames that carry extra keys
C31_Witness ==
    /\ call.fn = "transform_dataset" /\ Len(returned) = 2
    /\ call.self.keep_full_image
    /\ Len(returned[2].elements) >= 2
    /\ "scale" \in DOMAIN returned[2].elements[1].data
    /\ "image" \in DOMAIN returned[2].elements[1].data

\* x as a multiple of 2^-27 (the coordinates here are multiples of it)
Exact27(x) == x.m * 2^(x.e + 27)

\* points + offset = absolute, coordinate by coordinate and without rounding
RecoversExactly(points, offset, absolute) ==
    /\ DOMAIN points = DOMAIN absolute
    /\ \A node \in DOMAIN points : \A c \in 1..2 :
          Exact27(points[node][c]) + Exact27(offset[c])
              = Exact27(absolute[node][c])

\* points + offset differs from absolute by at most half a unit in the last
\* place of the point: the rounding of one float32 subtraction
RecoversRounded(points, offset, absolute) ==
    /\ DOMAIN points = DOMAIN absolute
    /\ \A node \in DOMAIN points : \A c \in 1..2 :
          2 * Abs(Exact27(points[node][c]) + Exact27(offset[c])
                    - Exact27(absolute[node][c]))
              <= 2^(points[node][c].e + 27)

\* the parts of C32 that involve no rounded subtraction, for the record el
\* made from instance n of its frame
CropRecordConsistent(el, n) ==
    LET d == el.data
        fr == call.input_ds[el.frame]
    IN  /\ n = d["center_instance_ind"] + 1
        /\ d["center_instance"] = d["all_instances"][n]
        /\ d["centroid"] = fr["centroids"][n]
        /\ Exact27(d["bbox"][1]) + Exact27(d["bbox"][3])
              = 2 * Exact27(d["centroid"][2])
        /\ Exact27(d["bbox"][2]) + Exact27(d["bbox"][4])
              = 2 * Exact27(d["centroid"][1])

C33_FirstBoxSize ==
    (call.fn = "crop_bboxes" /\ returned # <<>>) =>
        LET b == call.bboxes
            r == returned[1]
            height == Pixel(b[1][3]) - Pixel(b[1][1]) + 1
            width == Pixel(b[1][4]) - Pixel(b[1][2]) + 1
        IN  /\ r.raised = "none"
            /\ r.box_size = << height, width >>
            /\ DOMAIN r.crops = DOMAIN b
            /\ \A n \in DOMAIN b :
                  /\ DOMAIN r.crops[n] = 0..(height - 1)
                  /\ \A i \in DOMAIN r.crops[n] :
                        DOMAIN r.crops[n][i] = 0..(width - 1)
                  /\ (/\ Inside(b[n], call.image) /\ height > 1 /\ width > 1
                      /\ call.image.height > 1 /\ call.image.width > 1) =>
                        /\ r.crops[n][height - 1][0].y
                              = [kind |-> "pixel", at |-> Pixel(b[n][3])]
                        /\ r.crops[n][0][width - 1].x
                              = [kind |-> "pixel", at |-> Pixel(b[n][4])]

\* a batch of a 2 x 2 box and a 3 x 3 box gave two crops of 2 x 2
C33_Witness ==
    /\ call.fn = "crop_bboxes" /\ returned # <<>>
    /\ Len(call.bboxes) = 2
    /\ call.image.height = MaxImage /\ call.image.width = MaxImage
    /\ call.bboxes[1] = IntBox(0, 0, 2, 2)
    /\ call.bboxes[2] = IntBox(0, 0, 3, 3)
    /\ returned[1].box_size = << 2, 2 >>
    /\ Len(returned[1].crops) = 2

(* -------------------- VisualPredictor: output keys --------------------- *)
\* C34: the head type of the model determines the output keys by an
\* exhaustive match over the four head types: for a VisualPredictor of any
\* of the heads single_instance, centroid, centered_instance and
\* multi_instance, head_specific_output_keys is a non-empty list of key
\* names, and it contains the part-affinity-field key exactly when the head
\* is multi_instance.
C34_HeadOutputKeys ==
    pred.cls = "visual" =>
        LET keys == head_specific_output_keys(pred.head)
        IN  /\ pred.head \in HeadNames
            /\ keys # <<>>
            /\ ((\E i \in DOMAIN keys : keys[i] = "predicted_part_affinity_fields")
                    <=> pred.head = "multi_instance")

(* ----------------------- failures inside a frame ----------------------- *)
\* C35: a production failure does not split a frame and does not merge
\* frames: in a run in which records failed and were skipped, the groups
\* are exactly the maximal runs of equal keys of the records that were
\* produced (the records of a frame before and after a failure are one
\* group), and each group with an instance gives one LabeledFrame, with the
\* instances of the records that were produced.
C35_FailureKeepsFrame ==
    (/\ pc = "done" /\ make_instances
     /\ \E a \in DOMAIN attempts : attempts[a] = "err") =>
        /\ Concat(groups) = produced
        /\ GroupKeys = RunKeys(produced)
        /\ \A j \in DOMAIN groups : \A m \in DOMAIN groups[j].batch :
              KeyOf(groups[j].batch[m]) = groups[j].key
        /\ Len(predicted_frames) = Len(InstanceGroups)
        /\ \A j \in DOMAIN predicted_frames :
              /\ << predicted_frames[j].video, predicted_frames[j].frame_idx >>
                    = InstanceGroups[j].key
              /\ Len(predicted_frames[j].instances)
                    = Len(InstanceIds(InstanceGroups[j].batch))

\* a record failed between two records of one frame, which became one
\* LabeledFrame of two instances
C35_Witness ==
    /\ pc = "done" /\ make_instances /\ pred.cls = "topdown"
    /\ attempts = << "ok", "err", "ok", "stop" >>
    /\ KeyOf(produced[1]) = KeyOf(produced[2])
    /\ KeyOf(produced[1]) # << 0, 0 >>
    /\ Len(groups) = 1
    /\ Len(predicted_frames) = 1
    /\ Len(predicted_frames[1].instances) = 2

(* --------------------------- look-ahead of grouping -------------------- *)
\* a pull of the running stream makes group_examples_iter emit a group
EmitStep == pc = "running" /\ groups' # groups

\* C36: group_examples_iter emits the group of a frame only after it has
\* pulled the first record with a different key or the upstream is
\* exhausted; when a group is emitted, at most one record beyond that group
\* has been pulled, and the records held are of one frame (of two at the
\* moment of the emission: the group and the record that ended it).
C36_BoundedLookAhead ==
    [][/\ (make_instances' /\ pc' = "running") =>
             /\ \A m \in DOMAIN grp'.batch : KeyOf(grp'.batch[m]) = grp'.last_key
             /\ Concat(groups') \o grp'.batch = produced'
       /\ EmitStep =>
             /\ Len(groups') = Len(groups) + 1
             /\ groups'[Len(groups')].batch = grp.batch
             /\ \/ /\ attempts'[Len(attempts')] = "ok"
                   /\ KeyOf(produced'[Len(produced')]) # groups'[Len(groups')].key
                   /\ grp'.batch = << produced'[Len(produced')] >>
                   /\ Len(produced') = Len(Concat(groups')) + 1
                \/ /\ attempts'[Len(attempts')] = "stop"
                   /\ Concat(groups') = produced']_vars

\* a group of two records was emitted when the first record of the next
\* frame arrived, which is the one record held
C36_Witness ==
    /\ pc = "running" /\ make_instances
    /\ Len(groups) = 1 /\ Len(groups[1].batch) = 2
    /\ Len(produced) = 3
    /\ grp.batch = << produced[3] >>

(* ------------------- exceptions outside record production -------------- *)
\* the step of the run that raised, if one did
Raised == {events[j] : j \in DOMAIN events} \cap RaisePoints

\* C37: fault isolation covers record production only: an exception raised
\* while a frame is assembled, by tracker.track or by tracker.final_pass is
\* not caught: it ends predict (nothing is pulled or assembled after it,
\* predict returns no LabeledFrames) and the command line run writes no
\* predictions file.
C37_AssemblyFaultsPropagate ==
    /\ Raised # {} =>
          /\ pc = "raised"
          /\ events[Len(events)] \in RaisePoints
          /\ Cardinality(Raised) = 1
          /\ ~cli.saved /\ cli.step = "frames"
          /\ final_pass_calls = <<>>
    /\ cli.saved => pc = "done"

\* tracker.track raised on the second frame of a command line run, after
\* the first frame had been assembled
C37_Witness ==
    /\ cli.step = "frames" /\ pc = "raised"
    /\ Raised = {"raise:track"}
    /\ Len(groups) = 2
    /\ Len(predicted_frames) = 1
    /\ ~cli.saved

(* ------------------------- image retention ----------------------------- *)
\* C38: image retention is fixed when the pipeline is built: whether the
\* key filter keeps the image key is computed once, from the tracker
\* attached when make_pipeline runs; attaching, replacing or removing the
\* tracker afterwards leaves the stage chain unchanged, so a tracker with
\* uses_image attached to a pipeline built without the image gets a null
\* img in every track call.
C38_ImageFixedAtBuild ==
    [][/\ (/\ pred'.cls \in {"topdown", "bottomup"}
           /\ ~pred.pipeline.built /\ pred'.pipeline.built) =>
             (ImageKeptAtBuild' <=> (pred.tracker.present /\ pred.tracker.uses_image))
       /\ (pred.pipeline.built /\ pred'.tracker # pred.tracker) =>
             pred'.pipeline = pred.pipeline
       /\ pred.pipeline.built => (ImageKeptAtBuild' <=> ImageKeptAtBuild)
       /\ ~ImageKeptAtBuild' =>
             \A j \in DOMAIN track_calls' : track_calls'[j].img = <<>>]_vars

\* a tracker that uses the image, attached after the pipeline was built
\* without the image, has received a null img
C38_Witness ==
    /\ pred.pipeline.built /\ ~ImageKeptAtBuild
    /\ pred.tracker.present /\ pred.tracker.uses_image
    /\ \E j \in DOMAIN track_calls :
          /\ track_calls[j].tracker = pred.tracker
          /\ track_calls[j].img = <<>>

(* ----------------------- single instance: no tracking ------------------ *)
\* C39: the single-instance predictor never tracks: whatever tracker is
\* attached to it (make_predictor_from_cli attaches one), no run of it
\* calls tracker.track or tracker.final_pass, and the instances of its
\* LabeledFrames are exactly the instances built from the records of the
\* frame, untracked.
C39_SingleNeverTracks ==
    (pred.cls = "single" /\ make_instances) =>
        /\ track_calls = <<>>
        /\ final_pass_calls = <<>>
        /\ Len(predicted_frames) = Len(InstanceGroups)
        /\ \A j \in DOMAIN predicted_frames :
              /\ predicted_frames[j].instances
                    = FrameInstances(InstanceGroups[j].batch)
              /\ \A m \in DOMAIN predicted_frames[j].instances :
                    ~predicted_frames[j].instances[m].tracked

\* a finished run of a single-instance predictor with a tracker attached
C39_Witness ==
    /\ pred.cls = "single" /\ pred.tracker.present
    /\ pc = "done" /\ make_instances
    /\ Len(predicted_frames) = 2

(* ------------------- find_instance_crop_size: multiples ---------------- *)
\* C40: for every label set, padding >= 0 and maximum_stride >= 1, the
\* value returned by find_instance_crop_size is a multiple of
\* maximum_stride, is at least the largest per-axis instance extent plus
\* the padding, and is the smallest such multiple; for a label set
\* without user instances it is the padding rounded up to a multiple of
\* maximum_stride.
C40_SmallestMultiple ==
    (call.fn = "find_instance_crop_size" /\ returned # <<>>) =>
        /\ returned[1].raised = "none"
        /\ Len(returned[1].crop_size) = 1
        /\ LET size == returned[1].crop_size[1]
               need == MaxLength(call.labels) + call.padding
           IN  /\ size % call.maximum_stride = 0
               /\ size >= need
               /\ size - call.maximum_stride < need
               /\ call.labels = {} =>
                     size = RoundUp(call.padding, call.maximum_stride)

====
